---- MODULE Spec2Model ----
(***************************************************************************)
(* Job orchestration of bellflow: the ScrapeJob record, the Remote-API     *)
(* engine (BrightDataEngine), the automation engine (PlaywrightEngine)     *)
(* and the JobManager registry.                                            *)
(*                                                                         *)
(* A ScrapeJob object is created once, in initialize_scrape, and every map *)
(* that holds it (the engine's self.jobs, the manager's self.jobs) holds a *)
(* reference to that one object.  The engine maps bd_jobs / pw_jobs carry  *)
(* the objects; the manager's map jobs is modelled by its key set, each    *)
(* key referring to the object the engine holds under the same id.         *)
(* Time is counted in hours.                                               *)
(***************************************************************************)
EXTENDS Integers, Sequences, FiniteSets, TLC

\* ---------------------------------------------------------------- bounds
MaxJobs == 2
MaxTime == 1
MaxReplyLen == 2
MaxItems == 1
MaxAgeHours == 1
MaxSessions == 3

JobIds == 1..MaxJobs
Users == {"u1", "u2"}
Platforms == {"twitter", "threads"}
Handles == {"snap1"}

\* ------------------------------------------------------------- JobStatus
PENDING == "pending"
RUNNING == "running"
COMPLETED == "completed"
FAILED == "failed"

\* BrightDataEngine.DATASET_IDS: the platforms the provider has a dataset for
DATASET_IDS == {"twitter", "linkedin"}

\* ------------------------------------------------------------- ScrapeJob
\* Python's None where the other values are integers
None == -1

NoResult ==
    [present |-> FALSE, platform |-> "none", user_id |-> "none",
     error |-> "none", total_items |-> 0, items |-> << >>,
     post_limit |-> None, selector_used |-> "none"]

ScrapeJob(status, platform, user, t) ==
    [platform |-> platform, user_id |-> user, error |-> "none",
     status |-> status, created_at |-> t, updated_at |-> t,
     result |-> NoResult, progress |-> "none"]

\* ------------------------------------------- replies of the provider
\* code 0 stands for requests raising (timeout, connection error).
NoReply == [code |-> -1, shape |-> "none", running |-> FALSE,
            message |-> FALSE, list |-> << >>, handle |-> "none"]

Reply(code, shape, running, message, list) ==
    [code |-> code, shape |-> shape, running |-> running,
     message |-> message, list |-> list, handle |-> "none"]

\* a reply of the trigger endpoint; handle "none": the body has no snapshot_id
Submitted(code, shape, handle) ==
    [code |-> code, shape |-> shape, running |-> FALSE,
     message |-> FALSE, list |-> << >>, handle |-> handle]

\* one record of a list-shaped snapshot: which markers it carries
Posts == [error : BOOLEAN, warning : BOOLEAN]

PostLists == UNION {[1..n -> Posts] : n \in 0..MaxReplyLen}

PollReplies ==
    {Reply(0, "none", FALSE, FALSE, << >>)}
    \cup {Reply(202, s, FALSE, m, << >>) :
            s \in {"invalid", "object"}, m \in BOOLEAN}
    \cup {Reply(404, "none", FALSE, FALSE, << >>)}
    \cup {Reply(500, "none", FALSE, FALSE, << >>)}
    \cup {Reply(200, "invalid", FALSE, FALSE, << >>)}
    \cup {Reply(200, "object", r, m, << >>) : r \in BOOLEAN, m \in BOOLEAN}
    \cup {Reply(200, "list", FALSE, FALSE, l) : l \in PostLists}

SubmitReplies ==
    {Submitted(0, "none", "none"),
     Submitted(500, "none", "none"),
     Submitted(200, "invalid", "none"),
     Submitted(200, "list", "none"),
     Submitted(200, "object", "none")}
    \cup {Submitted(200, "object", h) : h \in Handles}

\* no job: what a call on an unknown id finds
NoJob ==
    [platform |-> "none", user_id |-> "none", error |-> "none",
     status |-> "none", created_at |-> 0, updated_at |-> 0,
     result |-> NoResult, progress |-> "none"]

\* the options and the page of one scrape: post_limit (None when absent),
\* whether the caller passed an extract_fn, and how many posts extract_fn
\* finds on the page
Scrape(post_limit, has_extract_fn, found) ==
    [post_limit |-> post_limit, found |-> found,
     extract_fn |-> has_extract_fn]

\* no scrape: the engine is not the automation engine
NoScrape == Scrape(None, FALSE, 0)

\* the last call: the operation, its argument, the job as the call found it,
\* how the call ended (returned, or the error raised), the status an error
\* message carries, the provider calls made, the reply received, the value
\* returned and, for a scrape of the automation engine, its options and the
\* path _execute_scrape took; for list_user_jobs and get_stats the arguments
\* and the list or the counts returned
NoRet == [status |-> "none", op |-> "none", id |-> 0, pre |-> NoJob,
          outcome |-> "none", calls |-> 0, reply |-> NoReply,
          value |-> NoResult, scrape |-> NoScrape, path |-> "none",
          args |-> << >>, returned |-> << >>]

\* ------------------------------------------------------ session manager
\* the last call of the session manager or of a shutdown hook: the operation,
\* the registry and the sessions as the call found them, the sessions whose
\* close raised and how the call ended
NoSmRet == [op |-> "none", pre |-> {}, outcome |-> "none", before |-> << >>,
            raised |-> {}]

\* _scroll_and_load is not running
NoScroll == [post_limit |-> -1, pc |-> "idle", scrolls |-> 0,
             last_count |-> 0, current_count |-> 0, time_limit |-> -1,
             fixed |-> -1,
             timeup |-> FALSE]

NoFnRet == [op |-> "none", value |-> << >>, arg |-> << >>]

\* ------------------------------------- Job Manager calls on threads
MaxThreads == 2
Threads == 1..MaxThreads

\* a thread outside the Job Manager; outcome tells how its last call ended
IdleCall(outcome) ==
    [user |-> "none", op |-> "idle", id |-> 0, outcome |-> outcome,
     pc |-> "idle", engine |-> "none", cutoff |-> 0, size |-> 0, seen |-> {},
     remove |-> {}, popped |-> FALSE]

\* ------------------------------------------------------ event loop
\* no coroutine has started: the lock is free and no thread waits for it
NoLoop == [cleanup |-> "idle", lock |-> "free", blocked |-> "none",
           todo |-> << >>, scrapes |-> << >>]

\* ------------------------------------------------------ POST /v1/scrape
\* no request yet: no task stored, none waiting to run, no response sent;
\* the response is kept with the url and the user_id of its request
NoApi == [tasks |-> << >>, pending |-> {},
          response |-> [user_id |-> "", code |-> 0, detail |-> "none",
                        task_id |-> 0, url |-> << >>]]

\* ------------------------------------------------------ JobManager()
\* the class before its module is imported: no instance, so no _initialized
\* attribute, the lock free, no object allocated
NoManager == [lock |-> "free", instance |-> None, initialized |-> "unset",
              created |-> 0, importer |-> None, imported |-> FALSE]

VARIABLES
    bd_jobs,        \* BrightDataEngine.jobs: job_id -> ScrapeJob
    snapshot_map,   \* BrightDataEngine.snapshot_map: job_id -> snapshot_id
    pw_jobs,        \* PlaywrightEngine.jobs: job_id -> ScrapeJob
    jobs,           \* JobManager.jobs (key set; values alias the engine's objects)
    engines,        \* JobManager.engines: job_id -> engine
    user_jobs,      \* JobManager.user_jobs: user_id -> [job_ids]
    next_id,        \* the next fresh job id (uuid4)
    now,            \* datetime.now(), in hours
    ret,            \* the last call: operation, argument, outcome, provider calls
    pw_contexts,    \* the browser context _execute_scrape holds for a job: open or closed
    sessions,       \* the browser sessions load_session has launched, by session_id
    active_sessions,\* SessionManager._active_sessions (its keys)
    db,             \* the database connection of app.database
    phase,          \* the process: up, or down after a shutdown
    sm_ret,         \* the last call of the session manager or of a shutdown hook
    scroll,         \* the locals of _scroll_and_load while it runs
    fn_ret,         \* the last call of a pure helper: its arguments and its value
    inflight,       \* the jobs whose get_status is waiting for the provider's reply
    jm_calls,       \* the Job Manager call each thread is in: its position and locals
    loop,           \* the event loop: who holds SessionManager._lock, where each coroutine is
    api,            \* the scraping tasks stored by POST /v1/scrape and its last response
    manager         \* the class JobManager: _instance, its _initialized, _lock, the import

job_vars == <<bd_jobs, snapshot_map, pw_jobs, jobs, engines, user_jobs,
              next_id, now, ret, pw_contexts>>
sm_vars == <<sessions, active_sessions, db, phase, sm_ret>>
fn_vars == <<scroll, fn_ret>>
run_vars == <<inflight, jm_calls, loop, api, manager>>

vars == <<job_vars, sm_vars, fn_vars, run_vars>>

IsTerminal(status) == status \in {COMPLETED, FAILED}

\* ------------------------------------------------- BrightDataEngine
\* BDSubmitted without the check for a missing snapshot_id
BDSubmitted_NoHandleCheck(job, sr, t) ==
    IF job.platform \notin DATASET_IDS
    THEN [job EXCEPT !.status = FAILED, !.error = "unsupported_platform",
                     !.updated_at = t]
    ELSE IF sr.code = 0
    THEN [job EXCEPT !.status = FAILED, !.error = "transport", !.updated_at = t]
    ELSE IF sr.code # 200
    THEN [job EXCEPT !.status = FAILED, !.error = "api_error", !.updated_at = t]
    ELSE IF sr.shape # "object"
    THEN [job EXCEPT !.status = FAILED, !.error = "bad_body", !.updated_at = t]
    ELSE [job EXCEPT !.status = RUNNING, !.updated_at = t,
                     !.progress = "submitted"]

\* initialize_scrape: the job as it is returned, given the trigger reply
BDSubmitted(job, sr, t) ==
    IF job.platform \notin DATASET_IDS
    THEN [job EXCEPT !.status = FAILED, !.error = "unsupported_platform",
                     !.updated_at = t]
    ELSE IF sr.code = 0
    THEN [job EXCEPT !.status = FAILED, !.error = "transport", !.updated_at = t]
    ELSE IF sr.code # 200
    THEN [job EXCEPT !.status = FAILED, !.error = "api_error", !.updated_at = t]
    ELSE IF sr.shape # "object"
    THEN [job EXCEPT !.status = FAILED, !.error = "bad_body", !.updated_at = t]
    ELSE IF sr.handle = "none"
    THEN [job EXCEPT !.status = FAILED, !.error = "no_snapshot_id",
                     !.updated_at = t]
    ELSE [job EXCEPT !.status = RUNNING, !.updated_at = t,
                     !.progress = "submitted"]

\* initialize_scrape records the handle only on the acknowledged path
BDHandleRecorded(platform, sr) ==
    /\ platform \in DATASET_IDS
    /\ sr.code = 200
    /\ sr.shape = "object"
    /\ sr.handle # "none"

\* TransformBrightdataResponse leaving out a leading warning record
Transform_SkipWarning(data, job) ==
    LET posts == IF Len(data) > 0 /\ data[1].warning THEN Tail(data) ELSE data
    IN [present |-> TRUE, platform |-> job.platform, user_id |-> job.user_id,
        error |-> "none",
        total_items |-> Len([i \in 1..Len(posts) |-> "item"]),
        items |-> [i \in 1..Len(posts) |-> "item"],
        post_limit |-> None, selector_used |-> "BrightData API"]

\* _transform_brightdata_response: one item per record of the list
TransformBrightdataResponse(data, job) ==
    [present |-> TRUE, platform |-> job.platform, user_id |-> job.user_id,
     error |-> "none",
     total_items |-> Len([i \in 1..Len(data) |-> "item"]),
     items |-> [i \in 1..Len(data) |-> "item"],
     post_limit |-> None, selector_used |-> "BrightData API"]

\* BDPollFailed swallowing the exception: the job is left as it was
BDPollFailed_Swallowed(job, t) == job

\* BDPollFailed noting the time and leaving the job running
BDPollFailed_StaysRunning(job, t) == [job EXCEPT !.updated_at = t]

\* get_status' except branch: the poll failed
BDPollFailed(job, t) ==
    [job EXCEPT !.status = FAILED, !.error = "checking_status", !.updated_at = t]

\* BDNotReady treating 404 like any other unexpected status
BDNotReady_Fails(job, t) ==
    [job EXCEPT !.status = FAILED, !.error = "checking_status", !.updated_at = t]

\* get_status on 404: the snapshot is not there yet
BDNotReady(job, t) ==
    [job EXCEPT !.progress = "not_ready", !.updated_at = t]

\* get_status on 202: the message of the body, or the default when the body
\* has none, or the fallback when the body cannot be read as an object
BDAccepted(job, reply, t) ==
    [job EXCEPT !.updated_at = t,
        !.progress = IF reply.shape = "object"
                     THEN (IF reply.message THEN "provider_message"
                                            ELSE "being_processed")
                     ELSE "in_progress"]

\* get_status on a 200 body that parsed: an object with status "running",
\* a list, or anything else (which changes nothing)
BDBody(job, reply, t) ==
    IF reply.shape = "object" /\ reply.running
    THEN [job EXCEPT !.updated_at = t,
            !.progress = IF reply.message THEN "provider_message"
                                          ELSE "in_progress"]
    ELSE IF reply.shape = "list"
    THEN IF Len(reply.list) > 0 /\ reply.list[1].error
         THEN [job EXCEPT !.status = FAILED, !.error = "brightdata_error",
                          !.updated_at = t]
         ELSE [job EXCEPT !.status = COMPLETED,
                          !.result = TransformBrightdataResponse(reply.list, job),
                          !.updated_at = t]
    ELSE job

\* get_status past the short-circuit and the handle lookup: the job after
\* the provider's reply has been handled
BDPolled(job, reply, t) ==
    IF reply.code = 0 THEN BDPollFailed(job, t)
    ELSE IF reply.code = 202 THEN BDAccepted(job, reply, t)
    ELSE IF reply.code = 404 THEN BDNotReady(job, t)
    ELSE IF reply.code # 200 THEN BDPollFailed(job, t)
    ELSE IF reply.shape = "invalid" THEN BDPollFailed(job, t)
    ELSE BDBody(job, reply, t)

\* BDStatusOf refreshing updated_at of a finished job
BDStatusOf_Refresh(job, hasHandle, reply, t) ==
    IF IsTerminal(job.status) THEN [job EXCEPT !.updated_at = t]
    ELSE IF ~hasHandle
    THEN [job EXCEPT !.status = FAILED, !.error = "no_snapshot_found",
                     !.updated_at = t]
    ELSE BDPolled(job, reply, t)

\* get_status on a job the engine knows
BDStatusOf(job, hasHandle, reply, t) ==
    IF IsTerminal(job.status) THEN job
    ELSE IF ~hasHandle
    THEN [job EXCEPT !.status = FAILED, !.error = "no_snapshot_found",
                     !.updated_at = t]
    ELSE BDPolled(job, reply, t)

\* the number of provider calls get_status makes
BDStatusCalls(job, hasHandle) ==
    IF IsTerminal(job.status) \/ ~hasHandle THEN 0 ELSE 1

\* BDCancelled without the check for a finished job
BDCancelled_Always(job, t) ==
    [job EXCEPT !.status = FAILED, !.error = "cancelled", !.updated_at = t]

\* BDCancelled failing the job without saying why
BDCancelled_NoError(job, t) ==
    IF IsTerminal(job.status) THEN job
    ELSE [job EXCEPT !.status = FAILED, !.updated_at = t]

\* BDCancelled leaving updated_at as it was
BDCancelled_KeepsTime(job, t) ==
    IF IsTerminal(job.status) THEN job
    ELSE [job EXCEPT !.status = FAILED, !.error = "cancelled"]

\* cancel_job on a job the engine knows
BDCancelled(job, t) ==
    IF IsTerminal(job.status) THEN job
    ELSE [job EXCEPT !.status = FAILED, !.error = "cancelled",
                     !.updated_at = t]

\* ------------------------------------------------- PlaywrightEngine
\* what _execute_scrape can do.  Line 125 binds context to the value of
\* session_manager.load_session(...), called without await:
\*   session_error: that value is no browser context (load_session raises, or
\*     it is the coroutine object the async load_session of
\*     session_manager.py:95 returns, whose .pages lookup raises at line 126);
\*     no context is open;
\*   page_error: the value is a context and context.pages / new_page() raises
\*     at line 126, before the try block;
\*   navigation_error, scroll_error, extraction_error: page.goto, the scroll
\*     loop or extract_fn raises inside the try block;
\*   no_selector: _find_selector returns None (an exception while evaluating a
\*     selector is swallowed there and the next selector is tried);
\*   ok: the result is built.
ScrapeOutcomes ==
    {"session_error", "page_error", "navigation_error", "no_selector",
     "scroll_error", "extraction_error", "ok"}

\* the context _execute_scrape obtained for the job, when it is left: none on
\* session_error, still open when line 126 raised (outside try/finally),
\* closed by the finally block otherwise
PWContextAfter(contexts, id, outcome) ==
    IF outcome = "session_error" THEN contexts
    ELSE IF outcome = "page_error" THEN (id :> "open") @@ contexts
    ELSE (id :> "closed") @@ contexts

\* Python's truth value of an optional integer: None and 0 are false
Truthy(x) == x # None /\ x # 0

\* _execute_scrape lines 178-182: the extracted items, cut to post_limit
\* when post_limit is truthy
ItemsKept(opts) ==
    LET items == IF opts.extract_fn THEN [i \in 1..opts.found |-> "item"]
                                    ELSE << >>
    IN IF Truthy(opts.post_limit) /\ Len(items) > opts.post_limit
       THEN SubSeq(items, 1, opts.post_limit)
       ELSE items

\* _execute_scrape's return value on the paths that return; the result of
\* the no-selector path has an error and neither items nor total_items
PWExecuteScrape(platform, user, outcome, opts) ==
    IF outcome = "no_selector"
    THEN [present |-> TRUE, platform |-> platform, user_id |-> user,
          error |-> "No posts found", total_items |-> 0, items |-> << >>,
          post_limit |-> None, selector_used |-> "none"]
    ELSE [present |-> TRUE, platform |-> platform, user_id |-> user,
          error |-> "none",
          total_items |-> Len(ItemsKept(opts)),
          items |-> ItemsKept(opts),
          post_limit |-> opts.post_limit,
          selector_used |-> "selector"]

\* PWScraped keeping the diagnostic of a scrape that found no selector as the
\* job's error
PWScraped_SoftError(job, outcome, opts, t) ==
    IF outcome \in {"ok", "no_selector"}
    THEN [job EXCEPT !.status = COMPLETED,
                     !.result = PWExecuteScrape(job.platform, job.user_id, outcome, opts),
                     !.error = PWExecuteScrape(job.platform, job.user_id, outcome, opts).error,
                     !.updated_at = t]
    ELSE [job EXCEPT !.status = FAILED, !.error = outcome, !.updated_at = t]

\* PWScraped without the except branch's update of the job
PWScraped_Unfinished(job, outcome, opts, t) ==
    IF outcome \in {"ok", "no_selector"}
    THEN [job EXCEPT !.status = COMPLETED,
                     !.result = PWExecuteScrape(job.platform, job.user_id, outcome, opts),
                     !.updated_at = t]
    ELSE job

\* initialize_scrape: the job as it is returned
PWScraped(job, outcome, opts, t) ==
    IF outcome \in {"ok", "no_selector"}
    THEN [job EXCEPT !.status = COMPLETED,
                     !.result = PWExecuteScrape(job.platform, job.user_id, outcome, opts),
                     !.updated_at = t]
    ELSE [job EXCEPT !.status = FAILED, !.error = outcome, !.updated_at = t]

\* ------------------------------------------------- get_results (both engines)
\* ResultsOutcome without the check of the status
ResultsOutcome_NoStatusCheck(job) ==
    IF ~job.result.present THEN "NoResults" ELSE "returned"

\* get_results after its get_status: the result, or ValueError "not completed"
ResultsOutcome(job) ==
    IF job.status # COMPLETED THEN "NotReady"
    ELSE IF ~job.result.present THEN "NoResults"
    ELSE "returned"

\* the status string the "not completed" error carries
ResultsErrorStatus(job) == job.status

Init ==
    /\ bd_jobs = << >>
    /\ snapshot_map = << >>
    /\ pw_jobs = << >>
    /\ jobs = {}
    /\ engines = << >>
    /\ user_jobs = << >>
    /\ next_id = 1
    /\ now = 0
    /\ ret = NoRet
    /\ pw_contexts = << >>
    /\ sessions = << >>
    /\ active_sessions = {}
    /\ db = "connected"
    /\ phase = "up"
    /\ sm_ret = NoSmRet
    /\ scroll = NoScroll
    /\ fn_ret = NoFnRet
    /\ inflight = {}
    /\ jm_calls = [t \in Threads |-> IdleCall("none")]
    /\ loop = NoLoop
    /\ api = NoApi
    /\ manager = NoManager

\* the job object a job id refers to (the engines own the objects)
JobOf(id) == IF id \in DOMAIN bd_jobs THEN bd_jobs[id] ELSE pw_jobs[id]

Returned(op, id, pre, outcome, calls, reply, value) ==
    [status |-> "none", op |-> op, id |-> id, pre |-> pre,
     outcome |-> outcome, calls |-> calls, reply |-> reply, value |-> value,
     scrape |-> NoScrape, path |-> "none", args |-> << >>, returned |-> << >>]

\* get_results' return: the result, or the error with the status it names
Results(op, id, pre, job, calls, reply) ==
    [status |-> IF ResultsOutcome(job) = "NotReady"
                THEN ResultsErrorStatus(job) ELSE "none",
     op |-> op, id |-> id, pre |-> pre, outcome |-> ResultsOutcome(job),
     calls |-> calls, reply |-> reply,
     value |-> IF ResultsOutcome(job) = "returned" THEN job.result ELSE NoResult,
     scrape |-> NoScrape, path |-> "none", args |-> << >>, returned |-> << >>]

Found(map, id) == IF id \in DOMAIN map THEN map[id] ELSE NoJob

\* the replies the provider can give to a call on this job: a call that
\* does not reach the provider gets none
RepliesFor(id, replies) ==
    IF id \in DOMAIN bd_jobs
       /\ BDStatusCalls(bd_jobs[id], id \in DOMAIN snapshot_map) = 1
    THEN replies ELSE {NoReply}

\* BrightDataEngine.initialize_scrape: its effect on the engine
BDInit(id, user, platform, sr) ==
    /\ bd_jobs' = (id :> BDSubmitted(ScrapeJob(PENDING, platform, user, now), sr, now))
                    @@ bd_jobs
    /\ snapshot_map' = IF BDHandleRecorded(platform, sr)
                       THEN (id :> sr.handle) @@ snapshot_map
                       ELSE snapshot_map

\* BrightDataEngine.get_status: its effect on the engine, for a known job
BDStatus(id, reply) ==
    bd_jobs' = [bd_jobs EXCEPT
                  ![id] = BDStatusOf(@, id \in DOMAIN snapshot_map, reply, now)]

\* PlaywrightEngine.initialize_scrape: its effect on the engine
PWInit(id, user, platform, outcome, opts) ==
    /\ pw_jobs' = (id :> PWScraped(ScrapeJob(RUNNING, platform, user, now), outcome, opts, now))
                     @@ pw_jobs
    /\ pw_contexts' = PWContextAfter(pw_contexts, id, outcome)

\* BrightDataEngine.initialize_scrape(url, user_id, platform, ...)
BDInitializeScrape(user, platform, sr) ==
    /\ next_id <= MaxJobs
    /\ BDInit(next_id, user, platform, sr)
    /\ next_id' = next_id + 1
    /\ ret' = Returned("bd_initialize_scrape", next_id, NoJob, "returned",
                       IF platform \in DATASET_IDS THEN 1 ELSE 0, sr, NoResult)
    /\ UNCHANGED <<pw_jobs, jobs, engines, user_jobs, now>>
    /\ UNCHANGED <<pw_contexts, sm_vars, fn_vars, run_vars>>

\* BrightDataEngine.get_status(job_id): the engine's part of the state and
\* what the call returns; op names the entry point
BDGetStatusCall(op, id, reply) ==
    IF id \notin DOMAIN bd_jobs
    THEN /\ ret' = Returned(op, id, NoJob, "NotFound", 0, NoReply, NoResult)
         /\ UNCHANGED bd_jobs
    ELSE /\ BDStatus(id, reply)
         /\ ret' = [Returned(op, id, bd_jobs[id], "returned",
                             BDStatusCalls(bd_jobs[id],
                                           id \in DOMAIN snapshot_map),
                             reply, NoResult)
                       EXCEPT !.path = "get_status"]

\* BrightDataEngine.get_results(job_id)
BDGetResultsCall(op, id, reply) ==
    IF id \notin DOMAIN bd_jobs
    THEN /\ ret' = Returned(op, id, NoJob, "NotFound", 0, NoReply, NoResult)
         /\ UNCHANGED bd_jobs
    ELSE /\ BDStatus(id, reply)
         /\ ret' = Results(op, id, bd_jobs[id], bd_jobs'[id],
                           BDStatusCalls(bd_jobs[id], id \in DOMAIN snapshot_map),
                           reply)

\* BrightDataEngine.cancel_job(job_id)
BDCancelJobCall(op, id) ==
    IF id \notin DOMAIN bd_jobs
    THEN /\ ret' = Returned(op, id, NoJob, "false", 0, NoReply, NoResult)
         /\ UNCHANGED bd_jobs
    ELSE /\ bd_jobs' = [bd_jobs EXCEPT ![id] = BDCancelled(@, now)]
         /\ ret' = Returned(op, id, bd_jobs[id],
                            IF IsTerminal(bd_jobs[id].status) THEN "false"
                                                              ELSE "true",
                            0, NoReply, NoResult)

\* PlaywrightEngine.get_results(job_id)
PWGetResultsCall(op, id) ==
    ret' = IF id \notin DOMAIN pw_jobs
           THEN Returned(op, id, NoJob, "NotFound", 0, NoReply, NoResult)
           ELSE Results(op, id, pw_jobs[id], pw_jobs[id], 0, NoReply)

\* PWCancelJobCall reporting a known job as cancelled
PWCancelJobCall_Cancels(op, id) ==
    ret' = Returned(op, id, Found(pw_jobs, id),
                    IF id \in DOMAIN pw_jobs THEN "true" ELSE "false",
                    0, NoReply, NoResult)

\* PlaywrightEngine.cancel_job(job_id)
PWCancelJobCall(op, id) ==
    ret' = Returned(op, id, Found(pw_jobs, id), "false", 0, NoReply, NoResult)

BDGetStatus(id, reply) ==
    /\ BDGetStatusCall("bd_get_status", id, reply)
    /\ UNCHANGED <<snapshot_map, pw_jobs, jobs, engines, user_jobs, next_id, now>>
    /\ UNCHANGED <<pw_contexts, sm_vars, fn_vars, run_vars>>

BDCancelJob(id) ==
    /\ BDCancelJobCall("bd_cancel_job", id)
    /\ UNCHANGED <<snapshot_map, pw_jobs, jobs, engines, user_jobs, next_id, now>>
    /\ UNCHANGED <<pw_contexts, sm_vars, fn_vars, run_vars>>

\* ------------------------------------------------------- JobManager
BRIGHTDATA == "brightdata"
PLAYWRIGHT == "playwright"

\* IsAsync with no engine polled
IsAsync_Never(engine) == FALSE

\* is_async() of the two engines
IsAsync(engine) == engine = BRIGHTDATA

\* user_jobs after create_job has appended the id to the user's list
Tracked(lists, user, id) ==
    IF user \in DOMAIN lists
    THEN [lists EXCEPT ![user] = Append(@, id)]
    ELSE (user :> <<id>>) @@ lists

\* JobManager.create_job(engine, url, user_id, platform, ...)
CreateJob(engine, user, platform, sr, outcome, opts) ==
    /\ next_id <= MaxJobs
    /\ IF engine = BRIGHTDATA
       THEN /\ BDInit(next_id, user, platform, sr)
            /\ UNCHANGED <<pw_jobs, pw_contexts>>
       ELSE /\ PWInit(next_id, user, platform, outcome, opts)
            /\ UNCHANGED <<bd_jobs, snapshot_map>>
    /\ jobs' = jobs \cup {next_id}
    /\ engines' = (next_id :> engine) @@ engines
    /\ user_jobs' = Tracked(user_jobs, user, next_id)
    /\ next_id' = next_id + 1
    /\ ret' = [Returned("create_job", next_id, NoJob, "returned",
                        IF engine = BRIGHTDATA /\ platform \in DATASET_IDS
                        THEN 1 ELSE 0,
                        IF engine = BRIGHTDATA THEN sr ELSE NoReply, NoResult)
                  EXCEPT !.scrape = opts,
                         !.path = IF engine = BRIGHTDATA THEN "none" ELSE outcome]
    /\ UNCHANGED <<now, sm_vars, fn_vars, run_vars>>

\* JobManager.get_job(job_id)
GetJob(id, reply) ==
    /\ IF id \notin jobs
       THEN /\ ret' = Returned("get_job", id, NoJob, "NotFound", 0, NoReply,
                               NoResult)
            /\ UNCHANGED bd_jobs
       ELSE IF IsAsync(engines[id])
       THEN BDGetStatusCall("get_job", id, reply)
       ELSE /\ ret' = [Returned("get_job", id, JobOf(id), "returned", 0,
                                NoReply, NoResult)
                          EXCEPT !.path = "cached"]
            /\ UNCHANGED bd_jobs
    /\ UNCHANGED <<snapshot_map, pw_jobs, jobs, engines, user_jobs, next_id, now>>
    /\ UNCHANGED <<pw_contexts, sm_vars, fn_vars, run_vars>>

\* JobManager.get_job_results(job_id)
GetJobResults(id, reply) ==
    /\ IF id \notin DOMAIN engines
       THEN /\ ret' = Returned("get_job_results", id, NoJob, "NotFound", 0,
                               NoReply, NoResult)
            /\ UNCHANGED bd_jobs
       ELSE IF engines[id] = BRIGHTDATA
       THEN BDGetResultsCall("get_job_results", id, reply)
       ELSE /\ PWGetResultsCall("get_job_results", id)
            /\ UNCHANGED bd_jobs
    /\ UNCHANGED <<snapshot_map, pw_jobs, jobs, engines, user_jobs, next_id, now>>
    /\ UNCHANGED <<pw_contexts, sm_vars, fn_vars, run_vars>>

\* JobManager.cancel_job(job_id)
CancelJob(id) ==
    /\ IF id \notin DOMAIN engines
       THEN /\ ret' = Returned("cancel_job", id, NoJob, "false", 0, NoReply,
                               NoResult)
            /\ UNCHANGED bd_jobs
       ELSE IF engines[id] = BRIGHTDATA
       THEN BDCancelJobCall("cancel_job", id)
       ELSE /\ PWCancelJobCall("cancel_job", id)
            /\ UNCHANGED bd_jobs
    /\ UNCHANGED <<snapshot_map, pw_jobs, jobs, engines, user_jobs, next_id, now>>
    /\ UNCHANGED <<pw_contexts, sm_vars, fn_vars, run_vars>>

\* JobsToRemove without the check of the status
JobsToRemove_AnyStatus(max_age_hours) ==
    {id \in jobs : JobOf(id).updated_at < now - max_age_hours}

\* cleanup_old_jobs: the ids collected in jobs_to_remove
JobsToRemove(max_age_hours) ==
    {id \in jobs : /\ IsTerminal(JobOf(id).status)
                   /\ JobOf(id).updated_at < now - max_age_hours}

\* a list without the ids of a set (list.remove of each id, ids occur once)
Without(list, ids) == SelectSeq(list, LAMBDA id : id \notin ids)

\* RemovedFromLists leaving the per-user lists as they are
RemovedFromLists_Keeps(lists, ids) == lists

\* _remove_job applied to every id of jobs_to_remove: the per-user lists
RemovedFromLists(lists, ids) ==
    [u \in DOMAIN lists |->
        Without(lists[u], {id \in ids : JobOf(id).user_id = u})]

\* JobManager.cleanup_old_jobs(max_age_hours)
CleanupOldJobs(max_age_hours) ==
    /\ LET gone == JobsToRemove(max_age_hours)
       IN /\ jobs' = jobs \ gone
          /\ engines' = [id \in DOMAIN engines \ gone |-> engines[id]]
          /\ user_jobs' = RemovedFromLists(user_jobs, gone)
          /\ ret' = Returned("cleanup_old_jobs", max_age_hours, NoJob,
                             "returned", 0, NoReply, NoResult)
    /\ UNCHANGED <<bd_jobs, snapshot_map, pw_jobs, next_id, now>>
    /\ UNCHANGED <<pw_contexts, sm_vars, fn_vars, run_vars>>

\* Tick with a timer that fails the jobs still running
Tick_Expires ==
    /\ now < MaxTime
    /\ now' = now + 1
    /\ bd_jobs' = [id \in DOMAIN bd_jobs |->
                      IF bd_jobs[id].status = RUNNING
                      THEN BDPollFailed(bd_jobs[id], now + 1)
                      ELSE bd_jobs[id]]
    /\ UNCHANGED <<snapshot_map, pw_jobs, jobs, engines, user_jobs,
                   next_id, ret>>
    /\ UNCHANGED <<pw_contexts, sm_vars, fn_vars, run_vars>>

Tick ==
    /\ now < MaxTime
    /\ now' = now + 1
    /\ UNCHANGED <<bd_jobs, snapshot_map, pw_jobs, jobs, engines, user_jobs,
                   next_id, ret>>
    /\ UNCHANGED <<pw_contexts, sm_vars, fn_vars, run_vars>>

\* job_ids[-limit:] of a Python list, for limit >= 0: -0 is 0, so a limit of
\* 0 gives the whole list
LastN(list, limit) ==
    IF limit = 0 \/ limit >= Len(list) THEN list
    ELSE SubSeq(list, Len(list) - limit + 1, Len(list))

\* reversed(list)
Reversed(list) == [i \in 1..Len(list) |-> list[Len(list) - i + 1]]

\* self.user_jobs.get(user_id, [])
UserJobIds(user) == IF user \in DOMAIN user_jobs THEN user_jobs[user] ELSE << >>

\* the ids list_user_jobs visits, in the order it visits them
Visited(user, limit) == Reversed(LastN(UserJobIds(user), limit))

\* get_job inside list_user_jobs polls the job of an asynchronous engine
PolledInList(id) == id \in jobs /\ IsAsync(engines[id])

\* the job get_job returns inside list_user_jobs
JobInList(id, replies) ==
    IF PolledInList(id)
    THEN BDStatusOf(bd_jobs[id], id \in DOMAIN snapshot_map, replies[id], now)
    ELSE JobOf(id)

\* the provider calls get_job makes for one id inside list_user_jobs
CallsInList(id) ==
    IF PolledInList(id)
    THEN BDStatusCalls(bd_jobs[id], id \in DOMAIN snapshot_map)
    ELSE 0

RECURSIVE ListCalls(_)
\* the provider calls of one list_user_jobs over the ids it visits
ListCalls(list) ==
    IF list = << >> THEN 0
    ELSE CallsInList(Head(list)) + ListCalls(Tail(list))

\* JobManager.list_user_jobs(user_id, status, limit); status "none" is None
ListUserJobs(user, status, limit, replies) ==
    LET visited == Visited(user, limit)
        polled == {visited[i] : i \in {j \in DOMAIN visited :
                                          PolledInList(visited[j])}}
        Kept(id) == /\ id \in jobs
                    /\ status = "none" \/ JobInList(id, replies).status = status
    IN /\ bd_jobs' = [id \in DOMAIN bd_jobs |->
                         IF id \in polled THEN JobInList(id, replies)
                         ELSE bd_jobs[id]]
       /\ ret' = [Returned("list_user_jobs", 0, NoJob, "returned",
                           ListCalls(visited), NoReply, NoResult)
                     EXCEPT !.args = <<user, status, limit>>,
                            !.returned = SelectSeq(visited, Kept)]
       /\ UNCHANGED <<snapshot_map, pw_jobs, jobs, engines, user_jobs, next_id, now>>
       /\ UNCHANGED <<pw_contexts, sm_vars, fn_vars, run_vars>>

\* the number of tracked jobs in a status
StatusCount(status) == Cardinality({id \in jobs : JobOf(id).status = status})

\* len(self.user_jobs)
TotalUsers == Cardinality(DOMAIN user_jobs)

\* JobManager.get_stats(): total_jobs, the count of each status, total_users
GetStats ==
    /\ ret' = [Returned("get_stats", 0, NoJob, "returned", 0, NoReply, NoResult)
                  EXCEPT !.returned = <<Cardinality(jobs), StatusCount(PENDING),
                                        StatusCount(RUNNING),
                                        StatusCount(COMPLETED),
                                        StatusCount(FAILED), TotalUsers>>]
    /\ UNCHANGED <<bd_jobs, snapshot_map, pw_jobs, jobs, engines, user_jobs,
                   next_id, now>>
    /\ UNCHANGED <<pw_contexts, sm_vars, fn_vars, run_vars>>

\* one reply for each way get_status can take, and one for each way
\* initialize_scrape can take past the platform lookup
CoreReplies ==
    {Reply(0, "none", FALSE, FALSE, << >>),
     Reply(404, "none", FALSE, FALSE, << >>),
     Reply(200, "object", FALSE, FALSE, << >>),
     Reply(200, "list", FALSE, FALSE, <<[error |-> TRUE, warning |-> FALSE]>>),
     Reply(200, "list", FALSE, FALSE, <<[error |-> FALSE, warning |-> FALSE]>>)}

CoreSubmitReplies ==
    {Submitted(500, "none", "none")}
    \cup {Submitted(200, "object", h) : h \in Handles}

CoreOutcomes == {"session_error", "navigation_error", "no_selector", "ok"}

\* the Job Manager over both engines
Next ==
    \/ \E u \in Users, p \in Platforms, sr \in CoreSubmitReplies :
          CreateJob(BRIGHTDATA, u, p, sr, "ok", NoScrape)
    \/ \E u \in Users, o \in CoreOutcomes :
          CreateJob(PLAYWRIGHT, u, "threads", NoReply, o,
                    Scrape(None, TRUE, MaxItems))
    \/ \E id \in JobIds : \E reply \in RepliesFor(id, CoreReplies) :
          GetJob(id, reply)
    \/ \E id \in JobIds : \E reply \in RepliesFor(id, CoreReplies) :
          GetJobResults(id, reply)
    \/ \E id \in JobIds : CancelJob(id)
    \/ \E h \in 0..MaxAgeHours : CleanupOldJobs(h)
    \/ Tick

Spec == Init /\ [][Next]_vars

MaxListLimit == 2

\* the replies a poll inside list_user_jobs can get: not ready, done
ListReplies ==
    {Reply(404, "none", FALSE, FALSE, << >>),
     Reply(200, "list", FALSE, FALSE, <<[error |-> FALSE, warning |-> FALSE]>>)}

\* one reply for each id whose poll reaches the provider, none for the others
ListReplyMaps(user, limit) ==
    LET visited == Visited(user, limit)
        ids == {visited[i] : i \in DOMAIN visited}
    IN {r \in [JobIds -> ListReplies \cup {NoReply}] :
          \A id \in JobIds :
             r[id] = NoReply <=> ~(id \in ids /\ CallsInList(id) = 1)}

StatusFilters == {"none", RUNNING, COMPLETED, FAILED}

\* every call of the Job Manager, listing and statistics included
NextJM ==
    \/ \E u \in Users : \E h \in Handles :
          CreateJob(BRIGHTDATA, u, "twitter", Submitted(200, "object", h), "ok",
                    NoScrape)
    \/ \E u \in Users :
          CreateJob(PLAYWRIGHT, u, "threads", NoReply, "session_error",
                    Scrape(None, TRUE, MaxItems))
    \/ \E id \in JobIds : \E reply \in RepliesFor(id, ListReplies) :
          GetJob(id, reply)
    \/ \E id \in JobIds : \E reply \in RepliesFor(id, ListReplies) :
          GetJobResults(id, reply)
    \/ \E id \in JobIds : CancelJob(id)
    \/ \E h \in 0..MaxAgeHours : CleanupOldJobs(h)
    \/ \E u \in Users, f \in StatusFilters, l \in 0..MaxListLimit :
          \E replies \in ListReplyMaps(u, l) : ListUserJobs(u, f, l, replies)
    \/ GetStats
    \/ Tick

SpecJM == Init /\ [][NextJM]_vars

\* the Remote-API engine used on its own, with every shape of reply
NextBD ==
    \/ \E p \in Platforms, sr \in SubmitReplies :
          BDInitializeScrape("u1", p, sr)
    \/ \E id \in JobIds : \E reply \in RepliesFor(id, PollReplies) :
          BDGetStatus(id, reply)
    \/ \E id \in JobIds : BDCancelJob(id)
    \/ Tick

SpecBD == Init /\ [][NextBD]_vars

\* what the provider answers to the polls of a job on its way: not found
\* yet, requests.get raising (code 0), a server error, a list of posts, a
\* list that starts with an error record
PolledReplies ==
    {Reply(404, "none", FALSE, FALSE, << >>),
     Reply(0, "none", FALSE, FALSE, << >>),
     Reply(500, "none", FALSE, FALSE, << >>),
     Reply(200, "list", FALSE, FALSE, <<[error |-> FALSE, warning |-> FALSE]>>),
     Reply(200, "list", FALSE, FALSE, <<[error |-> TRUE, warning |-> FALSE]>>)}

\* the replies that end a poll's job: requests.get raising, a status other
\* than 200, 202 and 404, and a list-shaped body
DecisiveReplies ==
    {reply \in PolledReplies :
        \/ reply.code \in {0, 500}
        \/ reply.code = 200 /\ reply.shape = "list"}

\* get_status on a job that is polled, answered by a decisive reply
DecisivePoll(id) ==
    \E reply \in DecisiveReplies :
        /\ reply \in RepliesFor(id, PolledReplies)
        /\ BDGetStatus(id, reply)

NextBDLive ==
    \/ \E sr \in CoreSubmitReplies : BDInitializeScrape("u1", "twitter", sr)
    \/ \E id \in JobIds : \E reply \in RepliesFor(id, PolledReplies) :
          BDGetStatus(id, reply)
    \/ \E id \in JobIds : BDCancelJob(id)

\* the engine with callers that keep polling and a provider that in the end
\* answers decisively: a poll with a decisive reply is possible as long as
\* the job is unfinished, so it is not put off for ever
SpecBDLive ==
    Init /\ [][NextBDLive]_vars /\ \A id \in JobIds : WF_vars(DecisivePoll(id))

\* ------------------- get_status and cancel_job running at the same time
\* get_status up to requests.get: the job is known, unfinished and has a
\* snapshot; the call now waits for the provider
PollSend(id) ==
    /\ id \in DOMAIN bd_jobs
    /\ id \notin inflight
    /\ BDStatusCalls(bd_jobs[id], id \in DOMAIN snapshot_map) = 1
    /\ inflight' = inflight \cup {id}
    /\ ret' = Returned("poll_send", id, bd_jobs[id], "waiting", 1, NoReply,
                       NoResult)
    /\ UNCHANGED <<bd_jobs, snapshot_map, pw_jobs, jobs, engines, user_jobs,
                   next_id, now>>
    /\ UNCHANGED <<pw_contexts, sm_vars, fn_vars, jm_calls, loop, api, manager>>

\* get_status from the provider's reply on: the branches write the fields
\* of the job object as it is by then
PollReceive(id, reply) ==
    /\ id \in inflight
    /\ inflight' = inflight \ {id}
    /\ bd_jobs' = [bd_jobs EXCEPT ![id] = BDPolled(@, reply, now)]
    /\ ret' = [Returned("poll_receive", id, bd_jobs[id], "returned", 1, reply,
                        NoResult)
                  EXCEPT !.path = "get_status"]
    /\ UNCHANGED <<snapshot_map, pw_jobs, jobs, engines, user_jobs, next_id,
                   now>>
    /\ UNCHANGED <<pw_contexts, sm_vars, fn_vars, jm_calls, loop, api, manager>>

\* the Remote-API engine with a poll and a cancel of one job overlapping
NextPoll ==
    \/ \E sr \in CoreSubmitReplies : BDInitializeScrape("u1", "twitter", sr)
    \/ \E id \in JobIds : PollSend(id)
    \/ \E id \in JobIds : \E reply \in CoreReplies : PollReceive(id, reply)
    \/ \E id \in JobIds : BDCancelJob(id)
    \/ Tick

SpecPoll == Init /\ [][NextPoll]_vars
\* --------------------- Job Manager calls interleaved, statement by statement
\* the call a thread is in, and the same call at another position
CallAt(t, pc) == [jm_calls EXCEPT ![t].pc = pc]
CallDone(t, outcome) == [jm_calls EXCEPT ![t] = IdleCall(outcome)]
InCall(t, op, pc) == jm_calls[t].op = op /\ jm_calls[t].pc = pc

\* the key a dict iterator yields next: keys come in insertion order
NextKey(keys) == CHOOSE id \in keys : \A other \in keys : id <= other

\* create_job, lines 66-74: engine.initialize_scrape returns the job
JmCreateInit(t, engine, user, sr, outcome) ==
    /\ InCall(t, "idle", "idle")
    /\ next_id <= MaxJobs
    /\ IF engine = BRIGHTDATA
       THEN /\ BDInit(next_id, user, "twitter", sr)
            /\ UNCHANGED <<pw_jobs, pw_contexts>>
       ELSE /\ PWInit(next_id, user, "threads", outcome, NoScrape)
            /\ UNCHANGED <<bd_jobs, snapshot_map>>
    /\ next_id' = next_id + 1
    /\ jm_calls' = [jm_calls EXCEPT ![t] =
                       [IdleCall("none") EXCEPT !.op = "create_job",
                                                !.pc = "store_job",
                                                !.id = next_id,
                                                !.user = user,
                                                !.engine = engine]]
    /\ UNCHANGED <<jobs, engines, user_jobs, now, ret>>
    /\ UNCHANGED <<sm_vars, fn_vars, inflight, loop, api, manager>>

\* create_job, line 77: self.jobs[job.job_id] = job
JmCreateStoreJob(t) ==
    /\ InCall(t, "create_job", "store_job")
    /\ jobs' = jobs \cup {jm_calls[t].id}
    /\ jm_calls' = CallAt(t, "store_engine")
    /\ UNCHANGED <<bd_jobs, snapshot_map, pw_jobs, engines, user_jobs,
                   next_id, now, ret>>
    /\ UNCHANGED <<pw_contexts, sm_vars, fn_vars, inflight, loop, api, manager>>

\* create_job, line 78: self.engines[job.job_id] = engine
JmCreateStoreEngine(t) ==
    /\ InCall(t, "create_job", "store_engine")
    /\ engines' = (jm_calls[t].id :> jm_calls[t].engine) @@ engines
    /\ jm_calls' = CallAt(t, "check_user")
    /\ UNCHANGED <<bd_jobs, snapshot_map, pw_jobs, jobs, user_jobs, next_id,
                   now, ret>>
    /\ UNCHANGED <<pw_contexts, sm_vars, fn_vars, inflight, loop, api, manager>>

\* create_job, line 81: if user_id not in self.user_jobs
JmCreateCheckUser(t) ==
    /\ InCall(t, "create_job", "check_user")
    /\ jm_calls' = CallAt(t, IF jm_calls[t].user \in DOMAIN user_jobs
                             THEN "append" ELSE "new_list")
    /\ UNCHANGED <<job_vars, sm_vars, fn_vars, inflight, loop, api, manager>>

\* create_job, line 82: self.user_jobs[user_id] = []
JmCreateNewList(t) ==
    /\ InCall(t, "create_job", "new_list")
    /\ user_jobs' = (jm_calls[t].user :> << >>) @@ user_jobs
    /\ jm_calls' = CallAt(t, "append")
    /\ UNCHANGED <<bd_jobs, snapshot_map, pw_jobs, jobs, engines, next_id,
                   now, ret>>
    /\ UNCHANGED <<pw_contexts, sm_vars, fn_vars, inflight, loop, api, manager>>

\* create_job, lines 83-85: append the id to the user's list, return the job
JmCreateAppend(t) ==
    /\ InCall(t, "create_job", "append")
    /\ user_jobs' = [user_jobs EXCEPT ![jm_calls[t].user] =
                        Append(@, jm_calls[t].id)]
    /\ jm_calls' = CallDone(t, "returned")
    /\ UNCHANGED <<bd_jobs, snapshot_map, pw_jobs, jobs, engines, next_id,
                   now, ret>>
    /\ UNCHANGED <<pw_contexts, sm_vars, fn_vars, inflight, loop, api, manager>>

\* get_job, lines 102-103: if job_id not in self.jobs: raise ValueError
JmGetCheck(t, id) ==
    /\ InCall(t, "idle", "idle")
    /\ jm_calls' = IF id \in jobs
                   THEN [jm_calls EXCEPT ![t] =
                            [IdleCall("none") EXCEPT !.op = "get_job",
                                                     !.pc = "engine",
                                                     !.id = id]]
                   ELSE CallDone(t, "NotFound")
    /\ UNCHANGED <<job_vars, sm_vars, fn_vars, inflight, loop, api, manager>>

\* get_job, lines 105-110: engine = self.engines.get(job_id); without one
\* raise ValueError, else branch on engine.is_async()
JmGetEngine(t) ==
    /\ InCall(t, "get_job", "engine")
    /\ LET id == jm_calls[t].id
       IN jm_calls' =
             IF id \notin DOMAIN engines THEN CallDone(t, "NoEngine")
             ELSE [jm_calls EXCEPT
                      ![t].engine = engines[id],
                      ![t].pc = IF IsAsync(engines[id]) THEN "poll"
                                                        ELSE "read"]
    /\ UNCHANGED <<job_vars, sm_vars, fn_vars, inflight, loop, api, manager>>

\* get_job, line 111: job = engine.get_status(job_id)
JmGetPoll(t, reply) ==
    /\ InCall(t, "get_job", "poll")
    /\ reply \in RepliesFor(jm_calls[t].id, ListReplies)
    /\ BDStatus(jm_calls[t].id, reply)
    /\ jm_calls' = CallAt(t, "cache")
    /\ UNCHANGED <<snapshot_map, pw_jobs, jobs, engines, user_jobs, next_id,
                   now, ret>>
    /\ UNCHANGED <<pw_contexts, sm_vars, fn_vars, inflight, loop, api, manager>>

\* get_job, lines 112, 116: self.jobs[job_id] = job; return job
JmGetCache(t) ==
    /\ InCall(t, "get_job", "cache")
    /\ jobs' = jobs \cup {jm_calls[t].id}
    /\ jm_calls' = CallDone(t, "returned")
    /\ UNCHANGED <<bd_jobs, snapshot_map, pw_jobs, engines, user_jobs,
                   next_id, now, ret>>
    /\ UNCHANGED <<pw_contexts, sm_vars, fn_vars, inflight, loop, api, manager>>

\* get_job, lines 114, 116: job = self.jobs[job_id], a KeyError when the
\* key has gone; return job
JmGetRead(t) ==
    /\ InCall(t, "get_job", "read")
    /\ jm_calls' = CallDone(t, IF jm_calls[t].id \in jobs THEN "returned"
                                                          ELSE "KeyError")
    /\ UNCHANGED <<job_vars, sm_vars, fn_vars, inflight, loop, api, manager>>

\* cleanup_old_jobs, lines 190-193: the cutoff, the empty list and the
\* iterator over self.jobs.items(), which remembers the size of the dict
JmCleanupBegin(t, max_age_hours) ==
    /\ InCall(t, "idle", "idle")
    /\ jm_calls' = [jm_calls EXCEPT ![t] =
                       [IdleCall("none") EXCEPT !.op = "cleanup_old_jobs",
                                                !.pc = "scan",
                                                !.cutoff = now - max_age_hours,
                                                !.size = Cardinality(jobs)]]
    /\ UNCHANGED <<job_vars, sm_vars, fn_vars, inflight, loop, api, manager>>

\* cleanup_old_jobs, lines 193-197: one round of the for loop.  The iterator
\* raises RuntimeError when the dict has changed size since it was made;
\* otherwise it yields the next key or ends the loop
JmCleanupScan(t) ==
    /\ InCall(t, "cleanup_old_jobs", "scan")
    /\ LET call == jm_calls[t]
           rest == jobs \ call.seen
       IN jm_calls' =
             IF Cardinality(jobs) # call.size THEN CallDone(t, "RuntimeError")
             ELSE IF rest = {} THEN CallAt(t, "remove")
             ELSE [jm_calls EXCEPT
                      ![t].seen = @ \cup {NextKey(rest)},
                      ![t].remove =
                          IF /\ IsTerminal(JobOf(NextKey(rest)).status)
                             /\ JobOf(NextKey(rest)).updated_at < call.cutoff
                          THEN @ \cup {NextKey(rest)} ELSE @]
    /\ UNCHANGED <<job_vars, sm_vars, fn_vars, inflight, loop, api, manager>>

\* cleanup_old_jobs, lines 200-201 with _remove_job, lines 209-212:
\* job = self.jobs.pop(job_id, None); self.engines.pop(job_id, None)
JmRemovePop(t) ==
    /\ InCall(t, "cleanup_old_jobs", "remove")
    /\ LET call == jm_calls[t]
       IN IF call.remove = {}
          THEN /\ jm_calls' = CallDone(t, "returned")
               /\ UNCHANGED <<jobs, engines>>
          ELSE LET id == NextKey(call.remove)
               IN /\ jobs' = jobs \ {id}
                  /\ engines' = [j \in DOMAIN engines \ {id} |-> engines[j]]
                  /\ jm_calls' = [jm_calls EXCEPT ![t].pc = "unlist",
                                                  ![t].id = id,
                                                  ![t].popped = id \in jobs]
    /\ UNCHANGED <<bd_jobs, snapshot_map, pw_jobs, user_jobs, next_id, now,
                   ret>>
    /\ UNCHANGED <<pw_contexts, sm_vars, fn_vars, inflight, loop, api, manager>>

\* _remove_job, lines 215-218: when the pop found the job, remove the id
\* from its user's list if it is there
JmRemoveUnlist(t) ==
    /\ InCall(t, "cleanup_old_jobs", "unlist")
    /\ LET id == jm_calls[t].id
           user == JobOf(id).user_id
       IN user_jobs' =
             IF jm_calls[t].popped /\ user \in DOMAIN user_jobs
             THEN [user_jobs EXCEPT ![user] = Without(@, {id})]
             ELSE user_jobs
    /\ jm_calls' = [jm_calls EXCEPT ![t].pc = "remove",
                                    ![t].remove = @ \ {jm_calls[t].id}]
    /\ UNCHANGED <<bd_jobs, snapshot_map, pw_jobs, jobs, engines, next_id,
                   now, ret>>
    /\ UNCHANGED <<pw_contexts, sm_vars, fn_vars, inflight, loop, api, manager>>

\* create_job, get_job and cleanup_old_jobs called from threads that the
\* interpreter switches between statements
NextThreads ==
    \/ \E t \in Threads, h \in Handles :
          JmCreateInit(t, BRIGHTDATA, "u1", Submitted(200, "object", h), "ok")
    \/ \E t \in Threads :
          JmCreateInit(t, PLAYWRIGHT, "u1", NoReply, "session_error")
    \/ \E t \in Threads : JmCreateStoreJob(t)
    \/ \E t \in Threads : JmCreateStoreEngine(t)
    \/ \E t \in Threads : JmCreateCheckUser(t)
    \/ \E t \in Threads : JmCreateNewList(t)
    \/ \E t \in Threads : JmCreateAppend(t)
    \/ \E t \in Threads, id \in JobIds : JmGetCheck(t, id)
    \/ \E t \in Threads : JmGetEngine(t)
    \/ \E t \in Threads, reply \in ListReplies : JmGetPoll(t, reply)
    \/ \E t \in Threads : JmGetCache(t)
    \/ \E t \in Threads : JmGetRead(t)
    \/ \E t \in Threads : JmCleanupBegin(t, 0)
    \/ \E t \in Threads : JmCleanupScan(t)
    \/ \E t \in Threads : JmRemovePop(t)
    \/ \E t \in Threads : JmRemoveUnlist(t)
    \/ Tick

SpecThreads == Init /\ [][NextThreads]_vars

\* ------------------------------------------------ JobManager(), by steps
\* the thread that constructs with no regard to the import of the module
CanConstruct_NoImportLock(t) == TRUE

\* job_manager = JobManager() runs while the module is imported: the thread
\* that imports first runs it, every other thread reaches the class only
\* when the import is over
CanConstruct(t) == manager.imported \/ manager.importer \in {None, t}

\* the thread is in JobManager() at pc
Constructing(t, pc) == [jm_calls EXCEPT ![t].op = "construct", ![t].pc = pc]

\* __new__: if cls._instance is None
ManagerNewCheck(t) ==
    /\ InCall(t, "idle", "idle")
    /\ CanConstruct(t)
    /\ jm_calls' = Constructing(t, IF manager.instance = None THEN "lock"
                                   ELSE "init")
    /\ manager' = IF manager.importer = None
                  THEN [manager EXCEPT !.importer = t] ELSE manager
    /\ UNCHANGED <<job_vars, sm_vars, fn_vars, inflight, loop, api>>

\* __new__: with cls._lock
ManagerNewLock(t) ==
    /\ InCall(t, "construct", "lock")
    /\ manager.lock = "free"
    /\ manager' = [manager EXCEPT !.lock = "held"]
    /\ jm_calls' = CallAt(t, "recheck")
    /\ UNCHANGED <<job_vars, sm_vars, fn_vars, inflight, loop, api>>

\* __new__: the second test under the lock and super().__new__(cls)
ManagerNewCreate(t) ==
    /\ InCall(t, "construct", "recheck")
    /\ IF manager.instance = None
       THEN /\ manager' = [manager EXCEPT !.instance = manager.created + 1,
                                          !.created = @ + 1,
                                          !.initialized = "unset"]
            /\ jm_calls' = CallAt(t, "flag")
       ELSE /\ manager' = [manager EXCEPT !.lock = "free"]
            /\ jm_calls' = CallAt(t, "init")
    /\ UNCHANGED <<job_vars, sm_vars, fn_vars, inflight, loop, api>>

\* __new__: cls._instance._initialized = False, and the lock is left
ManagerNewFlag(t) ==
    /\ InCall(t, "construct", "flag")
    /\ manager' = [manager EXCEPT !.initialized = "False", !.lock = "free"]
    /\ jm_calls' = CallAt(t, "init")
    /\ UNCHANGED <<job_vars, sm_vars, fn_vars, inflight, loop, api>>

\* the call is over: the thread holds the instance, the import is over when
\* the importing thread's call is
Constructed(t, outcome) ==
    /\ jm_calls' = [jm_calls EXCEPT ![t] = [IdleCall(outcome) EXCEPT
                                               !.id = manager.instance]]
    /\ manager' = IF manager.importer = t
                  THEN [manager EXCEPT !.imported = TRUE] ELSE manager

\* __init__: if self._initialized: return
ManagerInitCheck(t) ==
    /\ InCall(t, "construct", "init")
    /\ IF manager.initialized = "unset" THEN Constructed(t, "AttributeError")
       ELSE IF manager.initialized = "True" THEN Constructed(t, "constructed")
       ELSE /\ jm_calls' = CallAt(t, "jobs")
            /\ UNCHANGED manager
    /\ UNCHANGED <<job_vars, sm_vars, fn_vars, inflight, loop, api>>

\* __init__: self.jobs = {}
ManagerInitJobs(t) ==
    /\ InCall(t, "construct", "jobs")
    /\ jobs' = {}
    /\ jm_calls' = CallAt(t, "engines")
    /\ UNCHANGED <<bd_jobs, snapshot_map, pw_jobs, engines, user_jobs,
                   next_id, now, ret, pw_contexts>>
    /\ UNCHANGED <<sm_vars, fn_vars, inflight, loop, api, manager>>

\* __init__: self.engines = {}
ManagerInitEngines(t) ==
    /\ InCall(t, "construct", "engines")
    /\ engines' = << >>
    /\ jm_calls' = CallAt(t, "user_jobs")
    /\ UNCHANGED <<bd_jobs, snapshot_map, pw_jobs, jobs, user_jobs,
                   next_id, now, ret, pw_contexts>>
    /\ UNCHANGED <<sm_vars, fn_vars, inflight, loop, api, manager>>

\* __init__: self.user_jobs = {}
ManagerInitUserJobs(t) ==
    /\ InCall(t, "construct", "user_jobs")
    /\ user_jobs' = << >>
    /\ jm_calls' = CallAt(t, "done")
    /\ UNCHANGED <<bd_jobs, snapshot_map, pw_jobs, jobs, engines,
                   next_id, now, ret, pw_contexts>>
    /\ UNCHANGED <<sm_vars, fn_vars, inflight, loop, api, manager>>

\* __init__: self._initialized = True
ManagerInitDone(t) ==
    /\ InCall(t, "construct", "done")
    /\ jm_calls' = [jm_calls EXCEPT ![t] = [IdleCall("constructed") EXCEPT
                                               !.id = manager.instance]]
    /\ manager' = [manager EXCEPT
                      !.initialized = "True",
                      !.imported = @ \/ manager.importer = t]
    /\ UNCHANGED <<job_vars, sm_vars, fn_vars, inflight, loop, api>>

\* job_manager.create_job(...) through the imported module
ManagerCreateJob(user, sr) ==
    /\ manager.imported
    /\ CreateJob(BRIGHTDATA, user, "twitter", sr, "ok", NoScrape)

NextManager ==
    \/ \E t \in Threads : \/ ManagerNewCheck(t)
                          \/ ManagerNewLock(t)
                          \/ ManagerNewCreate(t)
                          \/ ManagerNewFlag(t)
                          \/ ManagerInitCheck(t)
                          \/ ManagerInitJobs(t)
                          \/ ManagerInitEngines(t)
                          \/ ManagerInitUserJobs(t)
                          \/ ManagerInitDone(t)
    \/ \E u \in Users, sr \in CoreSubmitReplies : ManagerCreateJob(u, sr)

SpecManager == Init /\ [][NextManager]_vars

\* ------------------------------------- the automation engine on its own
MaxLimit == 2
MaxFound == 3

\* post_limit: absent, or a non-negative integer
PostLimits == {None} \cup 0..MaxLimit

Scrapes ==
    {Scrape(l, f, m) : l \in PostLimits, f \in BOOLEAN, m \in 0..MaxFound}

\* PlaywrightEngine.initialize_scrape(url, user_id, platform, post_limit, ...)
PWInitializeScrape(user, platform, outcome, opts) ==
    /\ next_id <= MaxJobs
    /\ PWInit(next_id, user, platform, outcome, opts)
    /\ next_id' = next_id + 1
    /\ ret' = [Returned("pw_initialize_scrape", next_id, NoJob, "returned", 0,
                        NoReply, NoResult)
                  EXCEPT !.scrape = opts, !.path = outcome]
    /\ UNCHANGED <<bd_jobs, snapshot_map, jobs, engines, user_jobs, now>>
    /\ UNCHANGED <<sm_vars, fn_vars, run_vars>>

\* PlaywrightEngine.get_status(job_id)
PWGetStatus(id) ==
    /\ ret' = IF id \notin DOMAIN pw_jobs
              THEN Returned("pw_get_status", id, NoJob, "NotFound", 0, NoReply,
                            NoResult)
              ELSE Returned("pw_get_status", id, pw_jobs[id], "returned", 0,
                            NoReply, pw_jobs[id].result)
    /\ UNCHANGED <<bd_jobs, snapshot_map, pw_jobs, jobs, engines, user_jobs,
                   next_id, now, pw_contexts>>
    /\ UNCHANGED <<sm_vars, fn_vars, run_vars>>

\* PlaywrightEngine.cancel_job(job_id), called on the engine
PWCancelJob(id) ==
    /\ PWCancelJobCall("pw_cancel_job", id)
    /\ UNCHANGED <<bd_jobs, snapshot_map, pw_jobs, jobs, engines, user_jobs,
                   next_id, now, pw_contexts>>
    /\ UNCHANGED <<sm_vars, fn_vars, run_vars>>

\* the automation engine, called directly and through the Job Manager
NextPW ==
    \/ \E o \in ScrapeOutcomes, opts \in Scrapes :
          PWInitializeScrape("u1", "threads", o, opts)
    \/ \E o \in ScrapeOutcomes, opts \in Scrapes :
          CreateJob(PLAYWRIGHT, "u1", "threads", NoReply, o, opts)
    \/ \E id \in JobIds : PWGetStatus(id)
    \/ \E id \in JobIds : GetJob(id, NoReply)
    \/ \E id \in JobIds : PWCancelJob(id)
    \/ \E id \in JobIds : CancelJob(id)
    \/ Tick

SpecPW == Init /\ [][NextPW]_vars

\* ------------------------------------------------------ _scroll_and_load
\* max_scrolls: the default of the parameter, which every caller uses
MAX_SCROLLS == 500

MaxCount == 2

\* the counts querySelectorAll(selector).length can give
Counts == 0..MaxCount

TimeLimits == {None, 0, 1}

\* the locals when the loop is entered; fixed is the count of a page that
\* never changes, None for a page that may give any count; timeup tells
\* whether the last iteration found elapsed >= time_limit
ScrollEntered(post_limit, time_limit, fixed) ==
    [post_limit |-> post_limit, pc |-> "loop", scrolls |-> 0,
     last_count |-> 0, current_count |-> 0, time_limit |-> time_limit,
     fixed |-> fixed, timeup |-> FALSE]

\* the "Check limits" block: should_stop
ShouldStop(s, count, timeup) ==
    IF Truthy(s.post_limit) /\ count >= s.post_limit THEN TRUE
    ELSE IF Truthy(s.time_limit) THEN timeup
    ELSE FALSE

\* ScrollStepped as a while-True loop: the ceiling is not looked at
ScrollStepped_NoCeiling(s, count, timeup) ==
    LET counted == [s EXCEPT !.current_count = count, !.scrolls = @ + 1,
                             !.timeup = timeup]
    IN IF ShouldStop(s, count, timeup) THEN [counted EXCEPT !.pc = "done"]
       ELSE IF count = s.last_count THEN [counted EXCEPT !.pc = "done"]
       ELSE [counted EXCEPT !.last_count = count]

\* one iteration of "for i in range(max_scrolls)": scroll, count, check the
\* limits, check for no new content; the loop is left by a break or when the
\* range is used up
ScrollStepped(s, count, timeup) ==
    LET counted == [s EXCEPT !.current_count = count, !.scrolls = @ + 1,
                             !.timeup = timeup]
    IN IF ShouldStop(s, count, timeup) THEN [counted EXCEPT !.pc = "done"]
       ELSE IF count = s.last_count THEN [counted EXCEPT !.pc = "done"]
       ELSE [counted EXCEPT !.last_count = count,
                            !.pc = IF counted.scrolls >= MAX_SCROLLS
                                   THEN "done" ELSE "loop"]

\* _scroll_and_load(page, selector, post_limit, time_limit, ...) is called
ScrollAndLoad(post_limit, time_limit, fixed) ==
    /\ scroll.pc = "idle"
    /\ scroll' = ScrollEntered(post_limit, time_limit, fixed)
    /\ UNCHANGED <<fn_ret, job_vars, sm_vars, run_vars>>

\* one iteration; elapsed >= time_limit is timeup: always so for a limit
\* of 0, and once so it stays so
ScrollStep(count, timeup) ==
    /\ scroll.pc = "loop"
    /\ scroll.fixed # None => count = scroll.fixed
    /\ scroll.time_limit = None => ~timeup
    /\ (scroll.time_limit = 0 \/ scroll.timeup) => timeup
    /\ scroll' = ScrollStepped(scroll, count, timeup)
    /\ UNCHANGED <<fn_ret, job_vars, sm_vars, run_vars>>

\* return current_count
ScrollReturn ==
    /\ scroll.pc = "done"
    /\ scroll' = NoScroll
    /\ fn_ret' = [op |-> "scroll_and_load",
                  value |-> <<scroll.current_count>>,
                  arg |-> <<scroll.post_limit>>]
    /\ UNCHANGED <<job_vars, sm_vars, run_vars>>

NextScroll ==
    \/ \E l \in PostLimits, t \in TimeLimits, f \in {None} \cup Counts :
          ScrollAndLoad(l, t, f)
    \/ \E c \in Counts, timeup \in BOOLEAN : ScrollStep(c, timeup)
    \/ ScrollReturn

SpecScroll == Init /\ [][NextScroll]_vars

\* ------------------------------------------- _convert_limit_to_dates
MaxPostLimit == 500

MaxDay == 1

\* the limits a caller can pass: None or a non-negative integer
Limits == {None} \cup 0..MaxPostLimit

\* the days subtracted from end_date
WindowDays(post_limit) ==
    IF ~Truthy(post_limit) \/ post_limit >= 500 THEN 365
    ELSE IF post_limit >= 100 THEN 90
    ELSE IF post_limit >= 50 THEN 30
    ELSE 7

\* (start_date, end_date), dates counted in days; both are formatted with
\* the same pattern, which keeps the whole days between them
LimitToDates(post_limit, today) == <<today - WindowDays(post_limit), today>>

\* _convert_limit_to_dates(post_limit) is called on day today
ConvertLimitToDates(post_limit, today) ==
    /\ fn_ret' = [op |-> "convert_limit_to_dates",
                  value |-> LimitToDates(post_limit, today),
                  arg |-> <<post_limit>>]
    /\ UNCHANGED <<scroll, job_vars, sm_vars, run_vars>>

\* ------------------------------------------- extract_data (engagement)
MaxNumber == 3

MaxNumbers == 4

RECURSIVE SeqsUpTo(_, _)
\* the sequences over S of length at most n
SeqsUpTo(S, n) ==
    IF n = 0 THEN {<< >>}
    ELSE LET shorter == SeqsUpTo(S, n - 1)
         IN shorter \cup {Append(q, x) : q \in {r \in shorter : Len(r) = n - 1},
                                          x \in S}

\* raw_numbers: the solitary numeric lines of a post, in page order
RawNumbers == SeqsUpTo(1..MaxNumber, MaxNumbers)

\* numbers[-k] of a Python list
FromEnd(numbers, k) == numbers[Len(numbers) - k + 1]

\* Metrics taking the last three numbers whatever the length
Metrics_LastThree(numbers) ==
    IF Len(numbers) >= 3
    THEN <<FromEnd(numbers, 3), FromEnd(numbers, 2), FromEnd(numbers, 1)>>
    ELSE <<None, None, None>>

\* <<likes, comments, reposts>> of one item
Metrics(numbers) ==
    IF Len(numbers) >= 3
    THEN <<IF Len(numbers) >= 4 THEN FromEnd(numbers, 4)
                                ELSE FromEnd(numbers, 3),
           IF Len(numbers) >= 4 THEN FromEnd(numbers, 3)
                                ELSE FromEnd(numbers, 2),
           IF Len(numbers) >= 4 THEN FromEnd(numbers, 2)
                                ELSE FromEnd(numbers, 1)>>
    ELSE <<None, None, None>>

\* the second pass of extract_data over one raw item
ExtractData(numbers) ==
    /\ fn_ret' = [op |-> "extract_data", value |-> Metrics(numbers),
                  arg |-> numbers]
    /\ UNCHANGED <<scroll, job_vars, sm_vars, run_vars>>

\* ---------------------------------------------------- _find_selector
MaxSelectors == 3

\* page.evaluate raising for a selector
Raised == -2

\* what evaluating the candidate selectors on a page gives, in list order:
\* a match count, or Raised
Evaluations == SeqsUpTo(Counts \cup {Raised}, MaxSelectors)

\* count > 0 on an evaluation that did not raise
Matches(evaluation) == evaluation # Raised /\ evaluation > 0

\* FindFrom giving up at the first selector whose evaluation raises
RECURSIVE FindFrom_StopsAtRaise(_, _)
FindFrom_StopsAtRaise(evaluations, i) ==
    IF i > Len(evaluations) THEN None
    ELSE IF evaluations[i] = Raised THEN None
    ELSE IF Matches(evaluations[i]) THEN i
    ELSE FindFrom_StopsAtRaise(evaluations, i + 1)

\* the for loop of _find_selector from the i-th selector on: the position
\* of the selector returned, None when the list is used up
RECURSIVE FindFrom(_, _)
FindFrom(evaluations, i) ==
    IF i > Len(evaluations) THEN None
    ELSE IF evaluations[i] = Raised THEN FindFrom(evaluations, i + 1)
    ELSE IF Matches(evaluations[i]) THEN i
    ELSE FindFrom(evaluations, i + 1)

\* _find_selector(page, selectors)
FindSelector(evaluations) == FindFrom(evaluations, 1)

\* initialize_scrape on a page that was opened and loaded: the selector
\* adopted and the job returned
SelectorScrape(evaluations) ==
    LET selector == FindSelector(evaluations)
        job == PWScraped(ScrapeJob(RUNNING, "threads", "u1", now),
                         IF selector = None THEN "no_selector" ELSE "ok",
                         IF selector = None THEN Scrape(None, TRUE, 0)
                         ELSE Scrape(None, TRUE, evaluations[selector]),
                         now)
    IN /\ fn_ret' = [op |-> "find_selector", value |-> <<selector, job>>,
                     arg |-> evaluations]
       /\ UNCHANGED <<scroll, job_vars, sm_vars, run_vars>>

NextFn ==
    \/ \E l \in Limits, today \in 0..MaxDay : ConvertLimitToDates(l, today)
    \/ \E numbers \in RawNumbers : ExtractData(numbers)
    \/ \E evaluations \in Evaluations : SelectorScrape(evaluations)

SpecFn == Init /\ [][NextFn]_vars

\* --------------------------------------------------------- SessionManager
SessionIds == 1..MaxSessions

\* what load_session launches and registers: the driver (playwright) and the
\* persistent context of the user's profile; close_calls counts the calls of
\* context.close() and stop_calls those of playwright.stop(), released says
\* the opening call path ran its cleanup
Session(user) ==
    [user_id |-> user, context |-> "open", playwright |-> "running",
     close_calls |-> 0, stop_calls |-> 0, released |-> FALSE]

\* the keys of a dict in insertion order (session ids grow with time)
RECURSIVE Ascending(_)
Ascending(S) ==
    IF S = {} THEN << >>
    ELSE LET least == CHOOSE x \in S : \A y \in S : x <= y
         IN <<least>> \o Ascending(S \ {least})

\* context.close() then playwright.stop() on one session: a raising close
\* leaves the context open and skips the stop
Closed(session, closefails, stopfails) ==
    IF closefails
    THEN [session EXCEPT !.close_calls = @ + 1]
    ELSE [session EXCEPT !.close_calls = @ + 1, !.context = "closed",
                         !.stop_calls = @ + 1,
                         !.playwright = IF stopfails THEN @ ELSE "stopped"]

\* CleanupLoop giving up at the first session whose close raises
RECURSIVE CleanupLoop_StopsAtFailure(_, _, _, _)
CleanupLoop_StopsAtFailure(order, all, closefail, stopfail) ==
    IF order = << >> THEN all
    ELSE LET sid == Head(order)
             next == [all EXCEPT ![sid] =
                         Closed(@, sid \in closefail, sid \in stopfail)]
         IN IF sid \in closefail \/ sid \in stopfail THEN next
            ELSE CleanupLoop_StopsAtFailure(Tail(order), next, closefail, stopfail)

\* cleanup_all_sessions' loop over list(_active_sessions.items()): each
\* session is closed inside its own try/except
RECURSIVE CleanupLoop(_, _, _, _)
CleanupLoop(order, all, closefail, stopfail) ==
    IF order = << >> THEN all
    ELSE LET sid == Head(order)
         IN CleanupLoop(Tail(order),
                        [all EXCEPT ![sid] =
                            Closed(@, sid \in closefail, sid \in stopfail)],
                        closefail, stopfail)

SmReturned(op, raised, outcome) ==
    [op |-> op, pre |-> active_sessions, outcome |-> outcome,
     before |-> sessions, raised |-> raised]

\* await load_session(user_id) (platforms/x.py:138)
LoadSession(user) ==
    /\ phase = "up"
    /\ Cardinality(DOMAIN sessions) < MaxSessions
    /\ LET sid == Cardinality(DOMAIN sessions) + 1
       IN /\ sessions' = (sid :> Session(user)) @@ sessions
          /\ active_sessions' = active_sessions \cup {sid}
    /\ sm_ret' = SmReturned("load_session", {}, "returned")
    /\ UNCHANGED <<db, phase, job_vars, fn_vars, run_vars>>

\* unregister_session(session_id)
UnregisterSession(sid) ==
    /\ phase = "up"
    /\ active_sessions' = active_sessions \ {sid}
    /\ sm_ret' = SmReturned("unregister_session", {}, "returned")
    /\ UNCHANGED <<sessions, db, phase, job_vars, fn_vars, run_vars>>

\* the cleanup of the call path that opened the session (platforms/x.py
\* finally block): close, stop, unregister; a raising close or stop leaves
\* the block at once
ReleaseSession(sid, closefails, stopfails) ==
    /\ phase = "up"
    /\ sid \in DOMAIN sessions
    /\ ~sessions[sid].released
    /\ sessions' = [sessions EXCEPT
                       ![sid] = [Closed(@, closefails, stopfails)
                                    EXCEPT !.released = TRUE]]
    /\ active_sessions' = IF closefails \/ stopfails THEN active_sessions
                          ELSE active_sessions \ {sid}
    /\ sm_ret' = SmReturned("release_session",
                            IF closefails THEN {sid} ELSE {},
                            IF closefails \/ stopfails THEN "raised"
                                                       ELSE "returned")
    /\ UNCHANGED <<db, phase, job_vars, fn_vars, run_vars>>

\* ------------------------------------------------ the session id
\* f"{user_id}_{threading.get_ident()}_{time.time()}": the thread ident is
\* an integer and the clock reading a float, neither holds an underscore, so
\* the string determines the three parts and is modelled by the triple
SessionId(user, thread, reading) == <<user, thread, reading>>

\* load_session(user_id) on a thread, with the registry keyed by the
\* session id as the code builds it; now is the reading of time.time(),
\* which need not differ between two calls
AcquireSession(user, thread) ==
    /\ phase = "up"
    /\ LET session_id == SessionId(user, thread, now)
       IN /\ sessions' = (session_id :> Session(user)) @@ sessions
          /\ active_sessions' = active_sessions \cup {session_id}
    /\ sm_ret' = SmReturned("load_session", {}, "returned")
    /\ UNCHANGED <<db, phase, job_vars, fn_vars, run_vars>>

\* acquisitions, unregistrations and the wall clock
NextRegistry ==
    \/ \E u \in Users, t \in Threads : AcquireSession(u, t)
    \/ \E session_id \in active_sessions : UnregisterSession(session_id)
    \/ Tick

SpecRegistry == Init /\ [][NextRegistry]_vars

\* ------------------------------------------------ XScraper.scrape
\* how the try block of scrape ends: an await in it raises, no selector is
\* found, or the result is built
ScrapePaths == {"raised", "no_selector", "ok"}

\* which of the four closing calls raise: context.close() and
\* playwright.stop() of the no-selector branch, then those of the finally
\* block
CloseFailures == [1..4 -> BOOLEAN]

\* the session after the try block: the no-selector branch closes the
\* context and stops the driver before it returns
AfterTry(session, path, fails) ==
    IF path = "no_selector" THEN Closed(session, fails[1], fails[2])
    ELSE session

\* the session after the finally block, which runs on every path
AfterFinally(session, fails) == Closed(session, fails[3], fails[4])

\* scrape() of platforms/x.py from load_session to the end of its finally
\* block
XScrape(user, path, fails) ==
    /\ phase = "up"
    /\ Cardinality(DOMAIN sessions) < MaxSessions
    /\ path # "no_selector" => ~fails[1] /\ ~fails[2]
    /\ LET sid == Cardinality(DOMAIN sessions) + 1
           early == path = "no_selector" /\ ~fails[1] /\ ~fails[2]
           late == ~fails[3] /\ ~fails[4]
           final == AfterFinally(AfterTry(Session(user), path, fails), fails)
       IN /\ sessions' = (sid :> [final EXCEPT !.released = TRUE]) @@ sessions
          /\ active_sessions' = IF early \/ late THEN active_sessions \ {sid}
                                ELSE active_sessions \cup {sid}
          /\ sm_ret' = SmReturned("scrape", {},
                                  IF path = "raised" \/ ~late
                                     \/ (path = "no_selector" /\ ~early)
                                  THEN "raised"
                                  ELSE IF path = "no_selector" THEN "no_posts"
                                  ELSE "returned")
    /\ UNCHANGED <<db, phase, job_vars, fn_vars, run_vars>>

NextScrape ==
    \E u \in Users, path \in ScrapePaths, fails \in CloseFailures :
        XScrape(u, path, fails)

SpecScrape == Init /\ [][NextScrape]_vars

\* the body of the coroutine cleanup_all_sessions, when it is awaited
CleanupAllSessions(closefail, stopfail) ==
    /\ phase = "up"
    /\ sessions' = CleanupLoop(Ascending(active_sessions), sessions,
                               closefail, stopfail)
    /\ active_sessions' = {}
    /\ sm_ret' = SmReturned("cleanup_all_sessions", closefail, "returned")
    /\ UNCHANGED <<db, phase, job_vars, fn_vars, run_vars>>

\* ------------------------------------------------------------- main.py
\* SessionManager.cleanup_all_sessions() as main.py calls it (lines 30 and
\* 73): cleanup_all_sessions is a coroutine function, the call expression
\* builds a coroutine object and nothing awaits it, so its body does not
\* run; the registry after the call is the registry before it
CleanupCalled(registry) == registry

\* disconnect_database(), inside its own try/except
Disconnected(fails) == IF fails THEN db ELSE "disconnected"

\* signal_handler(sig, frame), registered for SIGINT and SIGTERM
SignalHandler(dbfails) ==
    /\ phase = "up"
    /\ active_sessions' = CleanupCalled(active_sessions)
    /\ db' = Disconnected(dbfails)
    /\ phase' = "exited"
    /\ sm_ret' = SmReturned("signal_handler", {}, "exit")
    /\ UNCHANGED <<sessions, job_vars, fn_vars, run_vars>>

\* shutdown_event(), the application's shutdown hook
ShutdownEvent(dbfails) ==
    /\ phase = "up"
    /\ active_sessions' = CleanupCalled(active_sessions)
    /\ db' = Disconnected(dbfails)
    /\ phase' = "shutdown"
    /\ sm_ret' = SmReturned("shutdown_event", {}, "returned")
    /\ UNCHANGED <<sessions, job_vars, fn_vars, run_vars>>

\* the session manager and the shutdown hooks
NextSM ==
    \/ \E u \in Users : LoadSession(u)
    \/ \E sid \in SessionIds : UnregisterSession(sid)
    \/ \E sid \in SessionIds : \E cf, sf \in BOOLEAN :
          ReleaseSession(sid, cf, sf)
    \/ \E closefail, stopfail \in SUBSET active_sessions :
          CleanupAllSessions(closefail, stopfail)
    \/ \E dbfails \in BOOLEAN : SignalHandler(dbfails)
    \/ \E dbfails \in BOOLEAN : ShutdownEvent(dbfails)

SpecSM == Init /\ [][NextSM]_vars

\* ------------------------------------------------ POST /v1/scrape
MaxTasks == 3

\* a url as the pieces of its text: scheme, host, path
Urls == {<< >>, <<" ">>,
         <<"https://", "www.example.com", "/user">>,
         <<"https://", "www.threads.com", "/@user">>,
         <<"https://", "WWW.Threads.COM", "/@user">>}

UserIds == {"", "u1"}

\* str.lower() of a piece
Lower(piece) == IF piece = "WWW.Threads.COM" THEN "www.threads.com" ELSE piece

\* not text or not text.strip(): nothing but white space
Blank(url) == \A i \in DOMAIN url : url[i] = " "

\* "threads.com" in url.lower()
IsThreadsUrl(url) == \E i \in DOMAIN url : Lower(url[i]) = "www.threads.com"

\* the detail of the endpoint's HTTPException or the message of its
\* ScraperTaskResponse, with the request it answers
Response(code, detail, task_id, url, user_id) ==
    [user_id |-> user_id, code |-> code, detail |-> detail,
     task_id |-> task_id, url |-> url]

\* what create_scraping_task inserts
NewTask(url) ==
    [error |-> "none", status |-> "retriever:processing", source_link |-> url]

\* scrape_profile(request): 400 for an empty url or user_id, 500 when no
\* task could be stored, else the task is stored, its background run is
\* scheduled and the task id is returned
ScrapeProfile(url, user_id, stored) ==
    /\ Len(api.tasks) < MaxTasks
    /\ api' =
         IF Blank(url)
         THEN [api EXCEPT !.response =
                  Response(400, "URL cannot be empty", 0, url, user_id)]
         ELSE IF user_id = ""
         THEN [api EXCEPT !.response =
                  Response(400, "user_id cannot be empty", 0, url, user_id)]
         ELSE IF ~stored
         THEN [api EXCEPT !.response =
                  Response(500, "Failed to create scraping task", 0, url,
                           user_id)]
         ELSE [api EXCEPT
                  !.tasks = Append(@, NewTask(url)),
                  !.pending = @ \cup {Len(api.tasks) + 1},
                  !.response = Response(200, "Scraping task started",
                                        Len(api.tasks) + 1, url, user_id)]
    /\ UNCHANGED <<job_vars, sm_vars, fn_vars, inflight, jm_calls, loop, manager>>

\* how a background run of a Threads url goes: the scraper cannot be
\* built, scrape raises, returns nothing, returns a dict with an error,
\* the response cannot be built from the data, or all of it works
RunPaths == {"init_error", "scrape_error", "no_data", "reported_error",
             "process_error", "ok"}

\* update_scraping_task(task_id, status, error=error): the stored task
\* after the call; when the collection is None, or update_one has raised
\* three times, the function returns and nothing was written
UpdateScrapingTask(task, status, error, written) ==
    IF written THEN [task EXCEPT !.status = status, !.error = error]
    ELSE task

\* run_scraping_task(task_id, request), the background run: a url that is
\* not a Threads url fails the stored task; otherwise the scrape completes
\* or fails it, by one call of update_scraping_task on every path
RunScrapingTask(task_id, path, written) ==
    /\ task_id \in api.pending
    /\ api' = [api EXCEPT
                 !.pending = @ \ {task_id},
                 !.tasks[task_id] =
                     IF ~IsThreadsUrl(@.source_link)
                     THEN UpdateScrapingTask(@, "retriever:failed",
                                             "Unsupported platform", written)
                     ELSE IF path = "ok"
                     THEN UpdateScrapingTask(@, "retriever:completed",
                                             "none", written)
                     ELSE UpdateScrapingTask(@, "retriever:failed", path,
                                             written)]
    /\ UNCHANGED <<job_vars, sm_vars, fn_vars, inflight, jm_calls, loop, manager>>

\* the endpoint and its background runs
NextApi ==
    \/ \E url \in Urls, user_id \in UserIds, stored \in BOOLEAN :
          ScrapeProfile(url, user_id, stored)
    \/ \E task_id \in 1..MaxTasks, path \in RunPaths, written \in BOOLEAN :
          RunScrapingTask(task_id, path, written)

SpecApi == Init /\ [][NextApi]_vars

\* ------------- cleanup_all_sessions and scrapes as tasks of one event loop
\* A task runs from one await to the next; SessionManager._lock is a
\* threading.Lock, so a task that wants it while another task holds it
\* stops the loop's only thread
ScrapePc(sid) == IF sid \in DOMAIN loop.scrapes THEN loop.scrapes[sid]
                 ELSE "new"
ScrapeAt(sid, pc) == [loop EXCEPT !.scrapes = (sid :> pc) @@ @]
LoopRuns == phase = "up" /\ loop.blocked = "none"

\* XScraper.scrape up to the awaits of load_session (start, launch): the
\* driver and the context of the user's profile come up
ScrapeLaunch(sid, user) ==
    /\ LoopRuns
    /\ ScrapePc(sid) = "new"
    /\ sid = Cardinality(DOMAIN sessions) + 1
    /\ sessions' = (sid :> Session(user)) @@ sessions
    /\ loop' = ScrapeAt(sid, "launched")
    /\ UNCHANGED <<active_sessions, db, phase, sm_ret>>
    /\ UNCHANGED <<job_vars, fn_vars, inflight, jm_calls, api, manager>>

\* load_session from 'with self._lock' on: register the session, return,
\* and scrape goes on to await the page
ScrapeRegister(sid) ==
    /\ LoopRuns
    /\ ScrapePc(sid) = "launched"
    /\ IF loop.lock = "free"
       THEN /\ active_sessions' = active_sessions \cup {sid}
            /\ loop' = ScrapeAt(sid, "scraping")
            /\ sm_ret' = SmReturned("load_session", {}, "returned")
       ELSE /\ loop' = [loop EXCEPT !.blocked = "load_session"]
            /\ UNCHANGED <<active_sessions, sm_ret>>
    /\ UNCHANGED <<sessions, db, phase>>
    /\ UNCHANGED <<job_vars, fn_vars, inflight, jm_calls, api, manager>>

\* scrape's finally block up to its awaits: context.close(), playwright.stop()
ScrapeClose(sid) ==
    /\ LoopRuns
    /\ ScrapePc(sid) = "scraping"
    /\ sessions' = [sessions EXCEPT ![sid] = Closed(@, FALSE, FALSE)]
    /\ loop' = ScrapeAt(sid, "closed")
    /\ UNCHANGED <<active_sessions, db, phase, sm_ret>>
    /\ UNCHANGED <<job_vars, fn_vars, inflight, jm_calls, api, manager>>

\* the last statement of the finally block: unregister_session(session_id)
ScrapeUnregister(sid) ==
    /\ LoopRuns
    /\ ScrapePc(sid) = "closed"
    /\ IF loop.lock = "free"
       THEN /\ active_sessions' = active_sessions \ {sid}
            /\ sessions' = [sessions EXCEPT ![sid].released = TRUE]
            /\ loop' = ScrapeAt(sid, "done")
            /\ sm_ret' = SmReturned("unregister_session", {}, "returned")
       ELSE /\ loop' = [loop EXCEPT !.blocked = "unregister_session"]
            /\ UNCHANGED <<active_sessions, sessions, sm_ret>>
    /\ UNCHANGED <<db, phase>>
    /\ UNCHANGED <<job_vars, fn_vars, inflight, jm_calls, api, manager>>

\* cleanup_all_sessions up to its first await: take the lock; return at once
\* when the registry is empty, else snapshot it and await the first close
CleanupEnter ==
    /\ LoopRuns
    /\ loop.cleanup # "closing"
    /\ loop.lock = "free"
    /\ IF active_sessions = {}
       THEN /\ loop' = [loop EXCEPT !.cleanup = "done"]
            /\ sm_ret' = SmReturned("cleanup_all_sessions", {}, "returned")
       ELSE /\ loop' = [loop EXCEPT !.lock = "cleanup",
                                    !.cleanup = "closing",
                                    !.todo = Ascending(active_sessions)]
            /\ UNCHANGED sm_ret
    /\ UNCHANGED <<sessions, active_sessions, db, phase>>
    /\ UNCHANGED <<job_vars, fn_vars, inflight, jm_calls, api, manager>>

\* cleanup_all_sessions resumed: the close and stop of one session are
\* over (or raised, inside the try); go on to the next session, or clear
\* the registry, leave the with block and return
CleanupResume(closefails, stopfails) ==
    /\ LoopRuns
    /\ loop.cleanup = "closing"
    /\ sessions' = [sessions EXCEPT
                       ![Head(loop.todo)] = Closed(@, closefails, stopfails)]
    /\ IF Len(loop.todo) > 1
       THEN /\ loop' = [loop EXCEPT !.todo = Tail(@)]
            /\ UNCHANGED <<active_sessions, sm_ret>>
       ELSE /\ loop' = [loop EXCEPT !.todo = << >>, !.lock = "free",
                                    !.cleanup = "done"]
            /\ active_sessions' = {}
            /\ sm_ret' = SmReturned("cleanup_all_sessions", {}, "returned")
    /\ UNCHANGED <<db, phase>>
    /\ UNCHANGED <<job_vars, fn_vars, inflight, jm_calls, api, manager>>

\* scrapes and a cleanup on one event loop
NextLoop ==
    \/ \E sid \in SessionIds, u \in Users : ScrapeLaunch(sid, u)
    \/ \E sid \in SessionIds : ScrapeRegister(sid)
    \/ \E sid \in SessionIds : ScrapeClose(sid)
    \/ \E sid \in SessionIds : ScrapeUnregister(sid)
    \/ CleanupEnter
    \/ \E cf, sf \in BOOLEAN : CleanupResume(cf, sf)

SpecLoop == Init /\ [][NextLoop]_vars

\* ================================================================ claims
AllJobs == {Found(bd_jobs, id) : id \in DOMAIN bd_jobs}
           \cup {Found(pw_jobs, id) : id \in DOMAIN pw_jobs}

HasResult(job) == job.result.present
HasError(job) == job.error # "none"

\* a status may stay, leave pending for running or failed, or leave running
\* for completed or failed
Forward(old, new) ==
    \/ new = old
    \/ old = PENDING /\ new \in {RUNNING, FAILED}
    \/ old = RUNNING /\ new \in {COMPLETED, FAILED}

KeepsForward(map, map2) ==
    \A id \in DOMAIN map :
        id \in DOMAIN map2 /\ Forward(map[id].status, map2[id].status)

\* C1: over every step of the Job Manager and of the engines it delegates to,
\* the status of every job of either engine stays or moves forward along
\* pending -> running -> {completed, failed} (pending -> failed allowed); it
\* never returns to pending or running and never leaves completed or failed.
C1_StatusMovesForward ==
    [][KeepsForward(bd_jobs, bd_jobs') /\ KeepsForward(pw_jobs, pw_jobs')]_vars

\* C1 witness: a poll through get_job has completed a running job while
\* another job has been cancelled.
C1_Witness ==
    /\ ret.op = "get_job"
    /\ ret.pre.status = RUNNING
    /\ bd_jobs[ret.id].status = COMPLETED
    /\ \E id \in DOMAIN bd_jobs : bd_jobs[id].error = "cancelled"

\* C2: on every job, result is present iff status is completed, error is
\* present iff status is failed, both are absent while pending or running,
\* and the two are never present together.
C2_ResultXorError ==
    \A job \in AllJobs :
        /\ HasResult(job) <=> job.status = COMPLETED
        /\ HasError(job) <=> job.status = FAILED
        /\ job.status \in {PENDING, RUNNING} => ~HasResult(job) /\ ~HasError(job)
        /\ ~(HasResult(job) /\ HasError(job))

\* C2 witness: a completed job, a failed job of the Remote-API engine and a
\* call of cancel on a finished job have all happened.
C2_Witness ==
    /\ ret.op = "cancel_job"
    /\ ret.pre.status = COMPLETED
    /\ \E id \in DOMAIN bd_jobs : bd_jobs[id].status = FAILED

\* the trigger reply acknowledges the submission with a snapshot handle
Acknowledged(reply) ==
    reply.code = 200 /\ reply.shape = "object" /\ reply.handle # "none"

C4_TerminalStatusIsCached ==
    (ret.op = "bd_get_status" /\ IsTerminal(ret.pre.status)) =>
        /\ ret.calls = 0
        /\ ret.outcome = "returned"
        /\ bd_jobs[ret.id] = ret.pre

\* C4 witness: a completed job was polled again at a later hour.
C4_Witness ==
    /\ ret.op = "bd_get_status"
    /\ ret.pre.status = COMPLETED
    /\ ret.pre.updated_at < now

\* the last call was a poll of a running job that reached the provider
PolledRunning ==
    /\ ret.op = "bd_get_status"
    /\ ret.pre.status = RUNNING
    /\ ret.calls = 1

\* C5: a poll of a running job answered by a list: failed with the provider's
\* error and no result when the list is non-empty and its first record has an
\* error marker; otherwise completed, without error, with a result whose
\* total_items is the length of the list.
C5_ListReply ==
    (PolledRunning /\ ret.reply.code = 200 /\ ret.reply.shape = "list") =>
        LET job == bd_jobs[ret.id]
            data == ret.reply.list
        IN IF Len(data) > 0 /\ data[1].error
           THEN /\ job.status = FAILED
                /\ job.error = "brightdata_error"
                /\ ~HasResult(job)
           ELSE /\ job.status = COMPLETED
                /\ HasResult(job)
                /\ job.result.total_items = Len(data)
                /\ Len(job.result.items) = Len(data)
                /\ ~HasError(job)

\* C5 witness: a list of two records, the first with only a warning marker,
\* has completed the job.
C5_Witness ==
    /\ PolledRunning
    /\ ret.reply.shape = "list"
    /\ Len(ret.reply.list) = 2
    /\ ret.reply.list[1].warning /\ ~ret.reply.list[1].error
    /\ bd_jobs[ret.id].status = COMPLETED

\* the reply says the snapshot is still being produced
InProgress(reply) ==
    \/ reply.code = 202
    \/ reply.code = 404
    \/ reply.code = 200 /\ reply.shape = "object" /\ reply.running

\* C6: a poll of a running job answered in-progress (202, 404, or 200 with an
\* object of status "running") leaves the job running without result or
\* error, its progress being the status message of that reply.
C6_InProgressReply ==
    (PolledRunning /\ InProgress(ret.reply)) =>
        LET job == bd_jobs[ret.id]
        IN /\ job.status = RUNNING
           /\ ~HasResult(job)
           /\ ~HasError(job)
           /\ job.progress \in {"provider_message", "being_processed",
                                "in_progress", "not_ready"}

\* C6 witness: a 404 has replaced the progress of a running job.
C6_Witness ==
    /\ PolledRunning
    /\ ret.reply.code = 404
    /\ ret.pre.progress # "not_ready"
    /\ bd_jobs[ret.id].progress = "not_ready"

\* C7: get_status raises only for an unknown id; a transport exception or an
\* unexpected HTTP status fails the job on that poll with the exception text,
\* the call returns, and it calls the provider at most once.
C7_PollFailureFailsJob ==
    ret.op = "bd_get_status" =>
        /\ ret.outcome = "NotFound" <=> ret.pre = NoJob
        /\ ret.outcome \in {"NotFound", "returned"}
        /\ ret.calls <= 1
        /\ (PolledRunning /\ ret.reply.code \in {0, 500}) =>
              /\ ret.outcome = "returned"
              /\ bd_jobs[ret.id].status = FAILED
              /\ bd_jobs[ret.id].error = "checking_status"

\* C7 witness: a transport exception has failed a running job.
C7_Witness ==
    /\ PolledRunning
    /\ ret.reply.code = 0
    /\ bd_jobs[ret.id].status = FAILED

\* C8: cancel on a pending or running job returns true and leaves it failed
\* with the cancellation error and no result; on a finished job it returns
\* false and changes nothing; a later get_status on a cancelled job calls no
\* provider and finds it failed with the cancellation error.
C8_Cancel ==
    /\ (ret.op = "bd_cancel_job" /\ ret.pre # NoJob) =>
          IF ret.pre.status \in {PENDING, RUNNING}
          THEN /\ ret.outcome = "true"
               /\ bd_jobs[ret.id].status = FAILED
               /\ bd_jobs[ret.id].error = "cancelled"
               /\ ~HasResult(bd_jobs[ret.id])
          ELSE /\ ret.outcome = "false"
               /\ bd_jobs[ret.id] = ret.pre
    /\ (ret.op = "bd_get_status" /\ ret.pre.error = "cancelled") =>
          /\ ret.calls = 0
          /\ bd_jobs[ret.id].status = FAILED
          /\ bd_jobs[ret.id].error = "cancelled"

\* C8 witness: a cancelled job has been polled afterwards.
C8_Witness ==
    /\ ret.op = "bd_get_status"
    /\ ret.pre.error = "cancelled"
    /\ ret.outcome = "returned"

\* C8 witness of the refusal: cancel was called on a completed job.
C8_WitnessFinished ==
    /\ ret.op = "bd_cancel_job"
    /\ ret.pre.status = COMPLETED

\* C9 as stated: get_job_results returns the result only of a completed job,
\* fails NotReady with the current status when called on a job that is
\* running, and fails NotFound for an unknown id.
C9_Original ==
    ret.op = "get_job_results" =>
        /\ ret.outcome = "returned" =>
              /\ JobOf(ret.id).status = COMPLETED
              /\ ret.value = JobOf(ret.id).result
        /\ ret.pre.status = RUNNING =>
              /\ ret.outcome = "NotReady"
              /\ ret.status = JobOf(ret.id).status
        /\ ret.pre = NoJob => ret.outcome = "NotFound"

\* C9 amended: get_results first refreshes the status (on the Remote-API
\* engine by polling the provider); it returns the result exactly when the
\* job is completed after that refresh, fails NotReady with the refreshed
\* status when the job is then still not completed, and fails NotFound for an
\* unknown id.
C9_ResultsAfterRefresh ==
    ret.op = "get_job_results" =>
        IF ret.pre = NoJob
        THEN ret.outcome = "NotFound" /\ ret.value = NoResult
        ELSE LET job == JobOf(ret.id)
             IN IF job.status = COMPLETED
                THEN /\ ret.outcome = "returned"
                     /\ ret.value = job.result
                     /\ HasResult(job)
                ELSE /\ ret.outcome = "NotReady"
                     /\ ret.status = job.status
                     /\ ret.value = NoResult

\* C9 witness: get_job_results on a running job polled the provider, the
\* list it got completed the job, and the result was returned.
C9_Witness ==
    /\ ret.op = "get_job_results"
    /\ ret.pre.status = RUNNING
    /\ ret.calls = 1
    /\ ret.outcome = "returned"

\* the tracked jobs that are finished and were last updated before the cutoff
Stale(h) ==
    {id \in jobs : /\ JobOf(id).status \in {COMPLETED, FAILED}
                   /\ JobOf(id).updated_at + h < now}

\* C10: cleanup_old_jobs(h) removes from the job map, the engine map and the
\* owner's list exactly the finished jobs last updated before now - h; a
\* pending or running job stays whatever its age, and every other entry and
\* every job object is left as it was.
C10_CleanupRemovesStaleFinished ==
    [][\A h \in 0..MaxAgeHours :
          CleanupOldJobs(h) =>
              /\ jobs' = jobs \ Stale(h)
              /\ DOMAIN engines' = DOMAIN engines \ Stale(h)
              /\ \A id \in DOMAIN engines' : engines'[id] = engines[id]
              /\ DOMAIN user_jobs' = DOMAIN user_jobs
              /\ \A u \in DOMAIN user_jobs :
                    user_jobs'[u] =
                        SelectSeq(user_jobs[u], LAMBDA id : id \notin Stale(h))
              /\ \A id \in jobs :
                    JobOf(id).status \in {PENDING, RUNNING} => id \in jobs'
              /\ bd_jobs' = bd_jobs /\ pw_jobs' = pw_jobs
      ]_vars

\* C10 witness: a cleanup has evicted a finished job and kept a running job
\* that is just as old.
C10_Witness ==
    /\ ret.op = "cleanup_old_jobs"
    /\ \E gone \in (DOMAIN bd_jobs \cup DOMAIN pw_jobs) \ jobs,
          kept \in jobs :
          /\ JobOf(kept).status = RUNNING
          /\ JobOf(kept).updated_at + ret.id < now
          /\ JobOf(gone).updated_at + ret.id < now
          /\ \A u \in DOMAIN user_jobs :
                \A i \in 1..Len(user_jobs[u]) : user_jobs[u][i] # gone

\* C11: cleanup_all_sessions calls close on every session registered when it
\* is called, also on those after one whose close raised; the sessions whose
\* close did not raise are closed; the call returns and the registry is empty.
C11_CleanupClosesEverySession ==
    sm_ret.op = "cleanup_all_sessions" =>
        /\ sm_ret.outcome = "returned"
        /\ active_sessions = {}
        /\ \A sid \in sm_ret.pre :
              /\ sessions[sid].close_calls = sm_ret.before[sid].close_calls + 1
              /\ sid \notin sm_ret.raised => sessions[sid].context = "closed"
        /\ \A sid \in DOMAIN sessions \ sm_ret.pre :
              sessions[sid] = sm_ret.before[sid]

\* C11 witness: the close of the first of three registered sessions raised and
\* the two after it were closed.
C11_Witness ==
    /\ sm_ret.op = "cleanup_all_sessions"
    /\ sm_ret.pre = {1, 2, 3}
    /\ sm_ret.raised = {1}
    /\ sessions[2].context = "closed"
    /\ sessions[3].context = "closed"
    /\ active_sessions = {}

\* C12: once a shutdown signal or the shutdown event has been handled (the
\* database disconnected, the process on its way out), every session that was
\* registered has been closed and the registry is empty.
C12_ShutdownClosesSessions ==
    sm_ret.op \in {"signal_handler", "shutdown_event"} =>
        /\ active_sessions = {}
        /\ \A sid \in sm_ret.pre : sessions[sid].context = "closed"

\* the last call was initialize on the automation engine, direct or through
\* create_job
PWInitialized ==
    /\ ret.op \in {"pw_initialize_scrape", "create_job"}
    /\ ret.path # "none"

C15_Returned ==
    /\ PWInitialized =>
          /\ ret.outcome = "returned"
          /\ pw_jobs[ret.id].status \in {COMPLETED, FAILED}
    /\ (ret.op \in {"pw_get_status", "get_job"} /\ ret.pre # NoJob) =>
          /\ ret.outcome = "returned"
          /\ pw_jobs[ret.id] = ret.pre

\* C15: initialize on the automation engine returns (never raises) a job that
\* is completed or failed, never pending or running, and every later
\* get_status or get_job on it returns it and leaves it as it was.
C15_SyncJobIsFinal ==
    [][/\ C15_Returned'
       /\ \A id \in DOMAIN pw_jobs :
             id \in DOMAIN pw_jobs' /\ pw_jobs'[id] = pw_jobs[id]]_vars

\* C15 witness: get_job, an hour later, on a job that failed because no
\* browser context could be obtained.
C15_Witness ==
    /\ ret.op = "get_job"
    /\ ret.pre.status = FAILED
    /\ ret.pre.error = "session_error"
    /\ ret.pre.updated_at < now
    /\ pw_jobs[ret.id] = ret.pre

FixedPageDone ==
    /\ scroll.pc = "done"
    /\ scroll.fixed # None
    /\ ~Truthy(scroll.post_limit)
    /\ ~Truthy(scroll.time_limit)

\* C16: every iteration of the scroll loop uses one of the 500 attempts and
\* the loop is left at the latest with the 500th, whatever counts the page
\* gives; on a page whose count is fixed at N, with no post or time limit, it
\* is left one iteration after the count has stopped increasing (after the
\* second iteration, or the first when N = 0) and returns N.
C16_ScrollLoopTerminates ==
    [][/\ scroll.pc = "loop" =>
             /\ scroll'.scrolls = scroll.scrolls + 1
             /\ scroll'.scrolls <= MAX_SCROLLS
             /\ scroll'.scrolls = MAX_SCROLLS => scroll'.pc = "done"
       /\ FixedPageDone' =>
             /\ scroll'.current_count = scroll'.fixed
             /\ scroll'.scrolls = IF scroll'.fixed = 0 THEN 1 ELSE 2]_vars

\* C16 witness: a page that kept changing its count was scrolled 500 times.
C16_Witness ==
    /\ scroll.pc = "done"
    /\ scroll.scrolls = MAX_SCROLLS
    /\ scroll.current_count # scroll.last_count

\* C18: for every post limit, absent or a non-negative integer, the date
\* window is 365 days when the limit is absent or at least 500, 90 days from
\* 100 to 499, 30 days from 50 to 99, and 7 days for every limit below 50.
C18_DateWindow ==
    fn_ret.op = "convert_limit_to_dates" =>
        LET L == fn_ret.arg[1]
            days == fn_ret.value[2] - fn_ret.value[1]
        IN days = IF L = None \/ L >= 500 THEN 365
                  ELSE IF 100 <= L /\ L < 500 THEN 90
                  ELSE IF 50 <= L /\ L < 100 THEN 30
                  ELSE 7

ListOf(lists, user) == IF user \in DOMAIN lists THEN lists[user] ELSE << >>

\* create_job has stored the job, its engine and the id in the user's list
C20_Created ==
    LET id == next_id
        user == IF id \in DOMAIN bd_jobs' THEN bd_jobs'[id].user_id
                ELSE pw_jobs'[id].user_id
    IN /\ id \notin jobs
       /\ jobs' = jobs \cup {id}
       /\ DOMAIN engines' = DOMAIN engines \cup {id}
       /\ \A j \in DOMAIN engines : engines'[j] = engines[j]
       /\ engines'[id] = IF id \in DOMAIN bd_jobs' THEN BRIGHTDATA
                         ELSE PLAYWRIGHT
       /\ user_jobs'[user] = Append(ListOf(user_jobs, user), id)
       /\ \A u \in DOMAIN user_jobs' \ {user} :
             u \in DOMAIN user_jobs /\ user_jobs'[u] = user_jobs[u]

\* get_job has answered: NotFound, the engine's get_status, or the cache
C20_Got ==
    LET id == ret'.id
    IN IF id \notin jobs
       THEN /\ ret'.outcome = "NotFound"
            /\ ret'.calls = 0
            /\ UNCHANGED <<bd_jobs, pw_jobs>>
       ELSE IF engines[id] = BRIGHTDATA
       THEN /\ ret'.outcome = "returned"
            /\ ret'.path = "get_status"
            /\ ret'.calls = BDStatusCalls(bd_jobs[id],
                                          id \in DOMAIN snapshot_map)
            /\ bd_jobs'[id] = BDStatusOf(bd_jobs[id],
                                         id \in DOMAIN snapshot_map,
                                         ret'.reply, now)
            /\ \A j \in DOMAIN bd_jobs \ {id} : bd_jobs'[j] = bd_jobs[j]
       ELSE /\ ret'.outcome = "returned"
            /\ ret'.path = "cached"
            /\ ret'.calls = 0
            /\ ret'.pre = JobOf(id)
            /\ UNCHANGED <<bd_jobs, pw_jobs>>

\* C20: create_job records the engine's job in the job map, the engine in
\* the engine map and appends the id to the creating user's list, leaving
\* every other entry alone; get_job fails NotFound for an unknown id, goes
\* through the engine's get_status and keeps its answer as the cached job
\* when the engine is asynchronous, and returns the cached job with no
\* engine or provider call when it is synchronous.
C20_CreateAndGetJob ==
    [][/\ next_id' # next_id => C20_Created
       /\ (ret'.op = "get_job" /\ now' = now) => C20_Got
       /\ UNCHANGED <<jobs, engines, user_jobs>> \/ next_id' # next_id
             \/ ret'.op = "cleanup_old_jobs"]_vars

\* C20 witness: a user's second job was appended to the list, and get_job
\* on an asynchronous job polled the provider and cached the finished job.
C20_Witness ==
    /\ ret.op = "get_job"
    /\ ret.path = "get_status"
    /\ ret.calls = 1
    /\ ret.pre.status = RUNNING
    /\ JobOf(ret.id).status = COMPLETED
    /\ \E u \in DOMAIN user_jobs : Len(user_jobs[u]) = 2

\* C23: cancel_job of the automation engine returns false for known and
\* unknown ids alike and leaves the job as it found it (status, result and
\* error included); cancel_job of the Job Manager returns false for an id it
\* does not track, and for a job of the automation engine.
C23_SyncCancelIsFalse ==
    /\ ret.op = "pw_cancel_job" =>
          /\ ret.outcome = "false"
          /\ Found(pw_jobs, ret.id) = ret.pre
    /\ ret.op = "cancel_job" =>
          /\ ret.id \notin jobs => ret.outcome = "false"
          /\ (ret.id \in jobs /\ engines[ret.id] = PLAYWRIGHT) =>
                /\ ret.outcome = "false"
                /\ pw_jobs[ret.id] = ret.pre

\* C23 witness: cancel_job was called on the engine for a job it holds.
C23_Witness ==
    /\ ret.op = "pw_cancel_job"
    /\ ret.id \in DOMAIN pw_jobs
    /\ ret.pre.status = FAILED
    /\ pw_jobs[ret.id].status = FAILED

\* C30: every get_status poll of a running job that reaches the provider
\* either finishes the job (completed or failed) or refreshes its progress
\* message and its updated_at, whatever the provider replies.
C30_PollChangesJob ==
    [][(ret'.op = "bd_get_status" /\ ret'.calls = 1 /\ now' = now) =>
          LET job == bd_jobs'[ret'.id]
          IN \/ IsTerminal(job.status)
             \/ job.progress # "none" /\ job.updated_at = now]_vars

\* C29: once the call that acquired a browser session has returned, on any
\* path, the registry no longer holds that session's entry.
C29_RegistryHoldsOnlyLiveSessions ==
    \A sid \in DOMAIN sessions :
        sessions[sid].released => sid \notin active_sessions

\* C21: list_user_jobs(user, status, limit) returns only tracked jobs of
\* that user, most recent first, never more than limit of them for any
\* limit >= 0, and only jobs in the status asked for when one is given.
C21_ListUserJobs ==
    ret.op = "list_user_jobs" =>
        LET user == ret.args[1]
            status == ret.args[2]
            limit == ret.args[3]
            listed == ret.returned
        IN /\ Len(listed) <= limit
           /\ \A i \in DOMAIN listed :
                 /\ listed[i] \in jobs
                 /\ JobOf(listed[i]).user_id = user
                 /\ status # "none" => JobOf(listed[i]).status = status
           /\ \A i, j \in DOMAIN listed : i < j => listed[i] > listed[j]

\* C22: get_stats returns the number of tracked jobs, for each status the
\* number of tracked jobs in it, the counts adding up to the total, and as
\* total_users the number of users that own at least one tracked job.
C22_Stats ==
    ret.op = "get_stats" =>
        LET stats == ret.returned
        IN /\ stats[1] = Cardinality(jobs)
           /\ stats[2] = Cardinality({id \in jobs : JobOf(id).status = PENDING})
           /\ stats[3] = Cardinality({id \in jobs : JobOf(id).status = RUNNING})
           /\ stats[4] = Cardinality({id \in jobs : JobOf(id).status = COMPLETED})
           /\ stats[5] = Cardinality({id \in jobs : JobOf(id).status = FAILED})
           /\ stats[2] + stats[3] + stats[4] + stats[5] = stats[1]
           /\ stats[6] = Cardinality({JobOf(id).user_id : id \in jobs})

\* the number of times an id occurs in a list
Occurrences(list, id) == Cardinality({i \in DOMAIN list : list[i] = id})

\* C28: after every call of the Job Manager the job map and the engine map
\* have the same keys, every tracked id occurs exactly once in the list of
\* its own user and in no other list, and no list holds an untracked id.
C28_MapsConsistent ==
    /\ DOMAIN engines = jobs
    /\ \A id \in jobs :
          /\ JobOf(id).user_id \in DOMAIN user_jobs
          /\ \A u \in DOMAIN user_jobs :
                Occurrences(user_jobs[u], id) =
                    IF u = JobOf(id).user_id THEN 1 ELSE 0
    /\ \A u \in DOMAIN user_jobs : \A i \in DOMAIN user_jobs[u] :
          user_jobs[u][i] \in jobs

\* C28 witness: one of two jobs was evicted and list_user_jobs then listed
\* the job that is left.
C28_Witness ==
    /\ ret.op = "list_user_jobs"
    /\ next_id > MaxJobs
    /\ Cardinality(jobs) = 1
    /\ Len(ret.returned) = 1

\* C25: a job cancelled while a poll of it waits for the provider stays
\* failed: the reply does not complete it, and it never holds both a
\* result and the cancellation error.
C25_CancelledStaysFailed ==
    \A id \in DOMAIN bd_jobs :
        bd_jobs[id].error = "cancelled" =>
            /\ bd_jobs[id].status = FAILED
            /\ ~HasResult(bd_jobs[id])

\* a call that failed because of what another call did to a map
Interfered(outcome) == outcome \in {"RuntimeError", "KeyError", "NoEngine"}

\* C27: however create_job, get_job and cleanup_old_jobs interleave, once
\* every call has returned no id is in the engine map or in a per-user list
\* without being in the job map, and no call has failed because another
\* call changed a map under it.
C27_ConcurrentCallsConsistent ==
    /\ (\A t \in Threads : jm_calls[t].op = "idle") =>
          /\ DOMAIN engines \subseteq jobs
          /\ \A u \in DOMAIN user_jobs : \A i \in DOMAIN user_jobs[u] :
                user_jobs[u][i] \in jobs
    /\ \A t \in Threads : ~Interfered(jm_calls[t].outcome)

\* C26: cleanup_all_sessions running on the event loop of a scrape that
\* acquires or releases a session never leaves a task waiting for the
\* registry lock, and it returns with the registry empty.
C26_CleanupNeverBlocks ==
    /\ loop.blocked = "none"
    /\ (sm_ret.op = "cleanup_all_sessions" /\ loop.cleanup = "done") =>
          active_sessions = {}

\* C24: POST /v1/scrape with a url that is not a Threads url is answered
\* with HTTP 400 and a detail that says "Unsupported platform".
C24_UnsupportedPlatformRejected ==
    LET response == api.response
    IN (/\ response.code # 0
        /\ ~Blank(response.url)
        /\ response.user_id # ""
        /\ ~IsThreadsUrl(response.url)) =>
           /\ response.code = 400
           /\ response.detail = "Unsupported platform"

\* status, result and error of a job
Outcome(job) == <<job.status, job.result, job.error>>

\* C32: once initialize has returned, status, result and error of a
\* Remote-API job change only in a step that is a get_status of that job
\* (through get_job, get_job_results or a list_user_jobs of its user) or a
\* cancel of it; no other call and no passage of time changes them.
C32_OnlyPollAndCancelChangeJob ==
    [][\A id \in DOMAIN bd_jobs :
          Outcome(bd_jobs'[id]) # Outcome(bd_jobs[id]) =>
             /\ now' = now
             /\ \/ /\ ret'.op \in {"get_job", "get_job_results", "cancel_job"}
                   /\ ret'.id = id
                \/ /\ ret'.op = "list_user_jobs"
                   /\ ret'.args[1] = bd_jobs[id].user_id]_vars

\* C32 witness: a job is still running after time has passed and a cleanup,
\* the call before this state, has run over the maps.
C32_Witness ==
    /\ ret.op = "cleanup_old_jobs"
    /\ now = MaxTime
    /\ \E id \in jobs : id \in DOMAIN bd_jobs /\ bd_jobs[id].status = RUNNING

\* the ids of a user's tracked jobs in a status, most recent first
Matching(user, status) ==
    SelectSeq(Reversed(UserJobIds(user)),
              LAMBDA id : id \in jobs /\ JobOf(id).status = status)

\* C38: list_user_jobs with a status filter and a limit of at least one
\* returns the most recent min(limit, m) of the m jobs of the user that are
\* in that status.
C38_LimitAfterFilter ==
    (ret.op = "list_user_jobs" /\ ret.args[2] # "none" /\ ret.args[3] >= 1) =>
        LET matching == Matching(ret.args[1], ret.args[2])
            limit == ret.args[3]
        IN ret.returned =
              SubSeq(matching, 1,
                     IF limit < Len(matching) THEN limit ELSE Len(matching))

\* C34: the time limit is looked at once in every iteration of the scroll
\* loop; the loop is left at the end of the first iteration that finds the
\* elapsed time >= time_limit, whether or not a post limit is set and
\* reached, and every step of the loop is one whole iteration.
C34_TimeLimitStopsLoop ==
    [][scroll.pc = "loop" =>
          /\ scroll'.scrolls = scroll.scrolls + 1
          /\ (scroll.time_limit # None /\ scroll'.timeup) =>
                scroll'.pc = "done"]_vars

\* C33: selector discovery adopts the first selector in list order whose
\* match count is greater than zero, skipping a selector whose evaluation
\* raises; when none matches the job is completed, not failed, and its
\* result carries an error and no items.
C33_FirstMatchingSelector ==
    fn_ret.op = "find_selector" =>
        LET evaluations == fn_ret.arg
            selector == fn_ret.value[1]
            job == fn_ret.value[2]
            matching == {i \in DOMAIN evaluations : Matches(evaluations[i])}
        IN /\ matching # {} =>
                 /\ selector \in matching
                 /\ \A i \in matching : selector <= i
           /\ matching = {} =>
                 /\ selector = None
                 /\ job.status = COMPLETED
                 /\ job.error = "none"
                 /\ job.result.present
                 /\ job.result.error # "none"
                 /\ job.result.items = << >>

\* C33 witness: the first selector raised, the second matched nothing and
\* the third was adopted.
C33_Witness ==
    /\ fn_ret.op = "find_selector"
    /\ Len(fn_ret.arg) = 3
    /\ fn_ret.arg[1] = Raised
    /\ fn_ret.arg[2] = 0
    /\ fn_ret.value[1] = 3

\* C33 witness: no selector matched and the job was completed with the
\* error in its result.
C33_WitnessNone ==
    /\ fn_ret.op = "find_selector"
    /\ fn_ret.arg = <<0, Raised>>
    /\ fn_ret.value[1] = None
    /\ fn_ret.value[2].status = COMPLETED

\* C37: within one scrape call the browser context and the driver are each
\* closed exactly once, on every path.
C37_ClosedExactlyOnce ==
    \A sid \in DOMAIN sessions :
        sessions[sid].released =>
            /\ sessions[sid].close_calls = 1
            /\ sessions[sid].stop_calls = 1

\* C36: every acquisition registers one new entry under a session id no
\* other acquisition has, so no registered session is overwritten and the
\* registry grows by exactly one.
C36_AcquisitionAddsOneEntry ==
    sm_ret.op = "load_session" =>
        Cardinality(active_sessions) = Cardinality(sm_ret.pre) + 1

\* C39: constructing JobManager any number of times, one after another or
\* from concurrent threads, gives the same fully initialised instance and
\* never empties the job, engine or per-user maps.
C39_OneManager ==
    [][/\ jobs \subseteq jobs'
       /\ DOMAIN engines \subseteq DOMAIN engines'
       /\ DOMAIN user_jobs \subseteq DOMAIN user_jobs'
       /\ manager'.created <= 1
       /\ \A t \in Threads :
             (jm_calls[t].op = "construct" /\ jm_calls'[t].op = "idle") =>
                /\ jm_calls'[t].outcome = "constructed"
                /\ jm_calls'[t].id = 1
                /\ manager'.initialized = "True"]_vars

\* C39 witness: a thread other than the importing one has constructed the
\* manager while jobs were registered.
C39_Witness ==
    /\ jobs # {}
    /\ \E t \in Threads :
          /\ manager.importer # t
          /\ jm_calls[t].op = "idle"
          /\ jm_calls[t].outcome = "constructed"
          /\ jm_calls[t].id = manager.instance

\* C40: a task starts in retriever:processing and, once its background run
\* is over, is retriever:completed or retriever:failed, never left in
\* retriever:processing.
C40_TaskLeavesProcessing ==
    \A task_id \in DOMAIN api.tasks :
        IF task_id \in api.pending
        THEN api.tasks[task_id].status = "retriever:processing"
        ELSE api.tasks[task_id].status \in
                {"retriever:completed", "retriever:failed"}

\* the jobs of map after a step to map2 at time t: none has updated_at
\* before created_at, none moves updated_at back, a job whose status changed
\* has updated_at t, and a new job has created_at t and updated_at t
TimesKept(map, map2, t) ==
    \A id \in DOMAIN map2 :
        /\ map2[id].updated_at >= map2[id].created_at
        /\ IF id \in DOMAIN map
           THEN /\ map2[id].updated_at >= map[id].updated_at
                /\ map2[id].created_at = map[id].created_at
                /\ map2[id].status # map[id].status => map2[id].updated_at = t
           ELSE /\ map2[id].created_at = t
                /\ map2[id].updated_at = t

\* C35: for every job updated_at is never earlier than created_at, never
\* decreases, and is refreshed on every status transition, a cancel
\* included.
C35_UpdatedAtFollowsStatus ==
    [][TimesKept(bd_jobs, bd_jobs', now') /\ TimesKept(pw_jobs, pw_jobs', now')]_vars

\* C35 witness: a job created earlier has been cancelled later, and a job
\* completed by a later poll exists.
C35_Witness ==
    /\ ret.op = "cancel_job"
    /\ ret.outcome = "true"
    /\ bd_jobs[ret.id].created_at < bd_jobs[ret.id].updated_at
    /\ \E id \in DOMAIN bd_jobs :
          /\ bd_jobs[id].status = COMPLETED
          /\ bd_jobs[id].created_at < bd_jobs[id].updated_at

Finished(id) == id \in DOMAIN bd_jobs /\ IsTerminal(bd_jobs[id].status)

====
